---- MODULE Spec2Model ----
(***************************************************************************)
(* Phase 2 Intelligence ML engine: the stdin/stdout request dispatcher     *)
(* (engine.py), the per-bot predictor's model cache (xgboost_predictor.py),*)
(* the Shapley attribution arithmetic (attribution.py), the feature        *)
(* extractor (feature_extraction.py), the dimensionality reducer           *)
(* (umap_reducer.py), the archetype clusterer's result builder             *)
(* (hdbscan_clusterer.py), the crowding detector (crowding.py) and the     *)
(* niche discovery (niche_discovery.py).                                   *)
(***************************************************************************)
EXTENDS Integers, Sequences, FiniteSets, TLC

\* the keys of the request, response, payload and result objects, in the
\* order in which every record below lists them
Keys ==
    [id |-> 0, type |-> 0, success |-> 0, raised |-> 0, error |-> 0, payload |-> 0,
     result |-> 0, response |-> 0, modules |-> 0, models |-> 0, train_counts |-> 0,
     kind |-> 0, botId |-> 0, nFeat |-> 0, nLab |-> 0, classes |-> 0, dim |-> 0,
     n |-> 0, predictions |-> 0, botCount |-> 0, trained |-> 0, predicted |-> 0,
     reason |-> 0, sampleCount |-> 0, by |-> 0, modelAccuracy |-> 0, status |-> 0,
     symbol |-> 0, regime |-> 0, direction |-> 0, quantity |-> 0, pnlPercentage |-> 0,
     tradeId |-> 0, totalReturn |-> 0, regimeContribution |-> 0,
     timingContribution |-> 0, directionContribution |-> 0, sizingContribution |-> 0,
     returnIfRandomEntry |-> 0, returnIfMedianSize |-> 0,
     returnIfOppositeDirection |-> 0, memberBotIds |-> 0, archetypes |-> 0,
     assignments |-> 0, noise |-> 0, silhouetteScore |-> 0, clusterCount |-> 0,
     timestamp |-> 0, archetypeId |-> 0, processingTimeMs |-> 0,
     avgReturn |-> 0, tradeCount |-> 0, classification |-> 0, avgPerformance |-> 0,
     totalTrades |-> 0, opportunityScore |-> 0, cells |-> 0, totalCells |-> 0,
     underexploited |-> 0, overcrowded |-> 0, unexplored |-> 0, balanced |-> 0,
     convergenceRatio |-> 0, botIds |-> 0, pValue |-> 0, severity |-> 0,
     windowMinutes |-> 0, activeBots |-> 0, totalBots |-> 0, alerts |-> 0,
     alertCount |-> 0, pnl |-> 0, holdingPeriodMinutes |-> 0, confidence |-> 0,
     indicators |-> 0, rsi14 |-> 0, bbPosition |-> 0, macdHist |-> 0,
     trendStrength |-> 0, features |-> 0, dimensions |-> 0, embeddings |-> 0,
     method |-> 0, botTrades |-> 0, dominantTraits |-> 0]

(***************************************************************************)
(* Bounds of the model.                                                    *)
(***************************************************************************)
\* number of input lines the engine reads before stdin is closed
MaxLines == 3
\* number of trades in the payload of a shapley:batch request
MaxTrades == 2
\* largest "permutations" count of a shapley:batch request
MaxPerms == 1
\* number of bots a patterns:cluster request can carry embeddings for
MaxBots == 6
\* number of archetypes in the payload of a competitive:niches request
MaxArchetypes == 2
\* number of bots trading the main symbol of a competitive:crowding request
MaxActive == 23
\* number of trades of a bot in the payload of a patterns:extract_features
\* request
MaxBotTrades == 3
\* number of bots in the features of a reduce call
MaxReduceBots == 5
\* the largest finite value of the floating-point range, scaled down
FloatMax == 1000000

(***************************************************************************)
(* Program constants.                                                      *)
(***************************************************************************)
\* xgboost_predictor.py:29  len(features) < 10 or len(labels) < 10
MinSamples == 10
\* xgboost_predictor.py:42  len(unique_labels) < 2
MinClasses == 2
\* hdbscan_clusterer.py:60  for k in range(3, max_k + 1)
KMin == 3
\* hdbscan_clusterer.py:59  max_k = min(7, n_samples // min_cluster_size)
KMax == 7
\* hdbscan_clusterer.py:73, 103, 108  the label of a noise point
NoiseLabel == -1
\* hdbscan_clusterer.py:3  Expected output: 3-7 clusters from 21 bots
ScenarioBots == 21
\* feature_extraction.py:19  if len(trades) < 3: continue
MinTrades == 3
\* engine.py:69  payload.get('minClusterSize', 3)
DefaultMinClusterSize == 3
\* umap_reducer.py:35  if n_samples < 4
MinUmapSamples == 4
\* feature_extraction.py:24  'dimensions': 20
FeatureDimensions == 20
\* umap_reducer.py:33  target_dim = 5
TargetDim == 5
\* crowding.py:15  payload.get('windowMinutes', 5)
DefaultWindowMinutes == 5
\* crowding.py:17  payload.get('totalBots', 21)
DefaultTotalBots == 21
\* crowding.py:42  if n_active < 3
MinActive == 3

(***************************************************************************)
(* Values.                                                                 *)
(***************************************************************************)
None == "None"

Bots == {"b1", "b2"}

\* caller-supplied request ids; None is a request without an "id" key
Ids == {"r1", None}

KnownTypes ==
    {"health:ping", "shapley:batch", "patterns:extract_features",
     "patterns:cluster", "competitive:train", "competitive:predict",
     "competitive:predict_all", "competitive:crowding", "competitive:niches",
     "fingerprint:regime_matrix"}

\* types that no branch of handle_request recognises ("" is a missing "type")
UnknownTypes == {"bogus:type", ""}

\* label classes buy=0, sell=1, hold=2
ClassSets == {{0}, {0, 1}}

\* widths of a feature row
Dims == {1, 2}

\* <<len(features), len(labels)>> of the training sets offered to train
TrainSizes == {<<MinSamples - 1, MinSamples>>, <<MinSamples, MinSamples>>,
               <<MinSamples, MinSamples + 1>>}

\* a payload that is JSON null: every payload.get(...) raises AttributeError
NullPayload == [kind |-> "null"]

EmptyPayload == [kind |-> "object"]

TrainPayloads ==
    {[kind |-> "train", botId |-> b, nFeat |-> sz[1], nLab |-> sz[2],
      classes |-> cs, dim |-> d] :
        b \in Bots, sz \in TrainSizes, cs \in ClassSets, d \in Dims}

PredictPayloads == [kind : {"predict"}, botId : Bots, dim : Dims]

\* predictions: bot -> width of its feature vector, 0 when the bot is absent
PredictAllPayloads == [kind : {"predict_all"}, predictions : [Bots -> {0} \cup Dims]]

NoRequest == [id |-> None, type |-> "", payload |-> NullPayload]

NoResponse == [id |-> None, type |-> <<>>, success |-> FALSE, error |-> <<>>,
               payload |-> NullPayload, processingTimeMs |-> 0]

\* round((time.time() - start) * 1000): the milliseconds a request took; the
\* handlers of the model take less than half a millisecond
ElapsedMs == {0}

VARIABLES
    pc,            \* main: "running", "crashed" (uncaught exception), "done" (EOF)
    modules,       \* engine.py _modules: the keys of the lazily built components
    models,        \* XGBoostPredictor.models: botId -> fitted model
    train_counts,  \* XGBoostPredictor.train_counts: botId -> len(features)
    req,           \* the request object main is handling (None before the first)
    resp,          \* the response main wrote for req (None before the first)
    requests,      \* number of request objects read from stdin so far
    responses,     \* number of response lines written to stdout so far
    lines,         \* number of input lines consumed
    last,          \* what the last consumed line was
    last_fit,      \* history: botId -> the estimator of the latest response that
                   \* reported trained:true for the bot (NoModel when none did)
    sh_pc,         \* compute_batch: "idle", "loop" (lines 16-18), "returned"
    sh_trades,     \* compute_batch: payload['trades']
    sh_perms,      \* compute_batch: payload['permutations']
    sh_results,    \* compute_batch: results, one attribution record per trade
                   \* handled so far
    sh_picks,      \* history: per trade handled so far, the draws of its random
                   \* generator
    cl_pc,         \* cluster: "idle", "start", "kmeans" (lines 60-67), "labelled"
                   \* (line 39), "returned"
    cl_embeddings, \* cluster: the keys of embeddings_result['embeddings']
    cl_min_size,   \* cluster: min_cluster_size
    cl_hdbscan,    \* HAS_HDBSCAN: the import at lines 8-12 succeeded
    cl_k,          \* _kmeans_fallback: k
    cl_best_score, \* _kmeans_fallback: best_score
    cl_labels,     \* labels (best_labels inside _kmeans_fallback), by position
                   \* in bot_ids
    cl_result,     \* what cluster returned
    ni_pc,         \* analyze: "idle", "start", "returned"
    ni_archetypes, \* analyze: payload['archetypes']
    ni_perf,       \* analyze: payload['performanceByBotRegime'], bot -> regime ->
                   \* the avgReturn and tradeCount read at lines 31-34
    ni_result,     \* what analyze returned
    pl_pc,         \* pipeline: "idle", "extract", "cluster", "niches", "done"
    pl_botTrades,  \* extract_features payload: bot -> number of its trades
    pl_hdbscan,    \* HAS_HDBSCAN
    pl_features,   \* the bots of the extract_features result
    pl_clustering, \* the patterns:cluster result
    pl_niches,     \* the competitive:niches result
    cr_pc,         \* detect: "idle", "start", "returned"
    cr_trades,     \* detect: payload['recentTrades']
    cr_threshold,  \* detect: payload['thresholdRatio'] as <<numerator, denominator>>
    cr_result,     \* what detect returned
    fx_pc,         \* extract: "idle", "start", "returned"
    fx_botTrades,  \* extract: payload['botTrades'], bot -> its list of trades
    fx_result,     \* what extract returned
    rd_pc,         \* reduce: "idle", "start", "returned"
    rd_features,   \* reduce: payload['features'], bot -> its feature vector
    rd_umap,       \* HAS_UMAP: the import at lines 8-12 succeeded
    rd_result,     \* what reduce returned
    tr_pc,         \* patterns:cluster: "idle", "start", "reduced", "returned"
    tr_features,   \* patterns:cluster: payload['features'], bot -> its 20 features
    tr_embeddings, \* what reducer.reduce returned under 'embeddings'
    tr_archetypes, \* what clusterer.cluster returned under 'archetypes'
    rr_trades,     \* repeated shapley:batch: payload['trades']
    rr_perms,      \* repeated shapley:batch: payload['permutations']
    rr_str_hash,   \* per engine process, hash() of each string id
    rr_rng,        \* per seed, the stream np.random.RandomState(seed) yields
    rr_first,      \* attributions of the request in the first engine process
    rr_again,      \* attributions of the same request sent to it again
    rr_other       \* attributions of the same request in another engine run

engineVars == <<pc, modules, models, train_counts, req, resp, requests, responses,
                lines, last, last_fit>>

shapleyVars == <<sh_pc, sh_trades, sh_perms, sh_results, sh_picks>>

clusterVars == <<cl_pc, cl_embeddings, cl_min_size, cl_hdbscan, cl_k, cl_best_score,
                 cl_labels, cl_result>>

nicheVars == <<ni_pc, ni_archetypes, ni_perf, ni_result>>

pipelineVars == <<pl_pc, pl_botTrades, pl_hdbscan, pl_features, pl_clustering,
                  pl_niches>>

crowdingVars == <<cr_pc, cr_trades, cr_threshold, cr_result>>

extractVars == <<fx_pc, fx_botTrades, fx_result>>

reduceVars == <<rd_pc, rd_features, rd_umap, rd_result>>

traitsVars == <<tr_pc, tr_features, tr_embeddings, tr_archetypes>>

rerunVars == <<rr_trades, rr_perms, rr_str_hash, rr_rng, rr_first, rr_again, rr_other>>

vars == <<engineVars, shapleyVars, clusterVars, nicheVars, pipelineVars, crowdingVars,
          extractVars, reduceVars, traitsVars, rerunVars>>

\* the variables of the components other than the one that takes a step
besideEngine == <<shapleyVars, clusterVars, nicheVars, pipelineVars, crowdingVars,
                  extractVars, reduceVars, traitsVars, rerunVars>>

besideShapley == <<engineVars, clusterVars, nicheVars, pipelineVars, crowdingVars,
                   extractVars, reduceVars, traitsVars, rerunVars>>

besideCluster == <<engineVars, shapleyVars, nicheVars, pipelineVars, crowdingVars,
                   extractVars, reduceVars, traitsVars, rerunVars>>

besideNiche == <<engineVars, shapleyVars, clusterVars, pipelineVars, crowdingVars,
                 extractVars, reduceVars, traitsVars, rerunVars>>

besidePipeline == <<engineVars, shapleyVars, clusterVars, nicheVars, crowdingVars,
                    extractVars, reduceVars, traitsVars, rerunVars>>

besideCrowding == <<engineVars, shapleyVars, clusterVars, nicheVars, pipelineVars,
                    extractVars, reduceVars, traitsVars, rerunVars>>

besideExtract == <<engineVars, shapleyVars, clusterVars, nicheVars, pipelineVars,
                   crowdingVars, reduceVars, traitsVars, rerunVars>>

besideReduce == <<engineVars, shapleyVars, clusterVars, nicheVars, pipelineVars,
                  crowdingVars, extractVars, traitsVars, rerunVars>>

besideTraits == <<engineVars, shapleyVars, clusterVars, nicheVars, pipelineVars,
                  crowdingVars, extractVars, reduceVars, rerunVars>>

besideRerun == <<engineVars, shapleyVars, clusterVars, nicheVars, pipelineVars,
                 crowdingVars, extractVars, reduceVars, traitsVars>>

(***************************************************************************)
(* Exact arithmetic on fractions <<numerator, denominator>>               *)
(***************************************************************************)
RECURSIVE GCD(_, _)
GCD(a, b) == IF b = 0 THEN a ELSE GCD(b, a % b)

AbsInt(n) == IF n < 0 THEN -n ELSE n

\* the fraction n/d (d # 0) in lowest terms
Frac(n, d) ==
    LET g == GCD(AbsInt(n), AbsInt(d))
        s == IF d < 0 THEN -1 ELSE 1
    IN  <<(s * n) \div g, (s * d) \div g>>

Zero == <<0, 1>>

Whole(n) == <<n, 1>>

Plus(a, b) == Frac(a[1] * b[2] + b[1] * a[2], a[2] * b[2])

Neg(a) == <<-a[1], a[2]>>

Minus(a, b) == Plus(a, Neg(b))

Times(a, b) == Frac(a[1] * b[1], a[2] * b[2])

Over(a, b) == Frac(a[1] * b[2], a[2] * b[1])

AbsFrac(a) == <<AbsInt(a[1]), a[2]>>

RECURSIVE SumSeq(_)
SumSeq(s) == IF s = <<>> THEN 0 ELSE Head(s) + SumSeq(Tail(s))

\* np.mean of a non-empty list of returns
Mean(s) == Frac(SumSeq(s), Len(s))

\* np.mean(xs) if xs else 0
MeanOrZero(s) == IF s = <<>> THEN Zero ELSE Mean(s)

\* the k-th smallest element of a list
Kth(s, k) ==
    CHOOSE x \in {s[i] : i \in DOMAIN s} :
        /\ Cardinality({i \in DOMAIN s : s[i] < x}) < k
        /\ Cardinality({i \in DOMAIN s : s[i] <= x}) >= k

\* np.median of a non-empty list
Median(s) ==
    LET n == Len(s)
    IN  IF n % 2 = 1 THEN Whole(Kth(s, (n + 1) \div 2))
        ELSE Frac(Kth(s, n \div 2) + Kth(s, n \div 2 + 1), 2)

\* round(x, 6): the nearest grid point, the even one of two equally near
round6(a) ==
    LET fl == a[1] \div a[2]
        rem == a[1] - fl * a[2]
    IN  IF 2 * rem < a[2] THEN fl
        ELSE IF 2 * rem > a[2] THEN fl + 1
        ELSE IF fl % 2 = 0 THEN fl ELSE fl + 1

Column(ts, field) == [i \in DOMAIN ts |-> ts[i][field]]

(***************************************************************************)
(* FeatureExtractor                                                        *)
(***************************************************************************)
\* Floating-point values are fractions <<n, d>> with d > 0, the infinities
\* <<1, 0>> and <<-1, 0>>, and NaN <<0, 0>>.  Only the range of the format
\* is modelled: a result beyond FloatMax becomes an infinity; rounding
\* errors inside the range are left out.
Inf == <<1, 0>>

NaN == <<0, 0>>

IsFinite(x) == x[2] # 0

SignOf(n) == IF n > 0 THEN 1 ELSE IF n < 0 THEN -1 ELSE 0

\* the value an exact result is stored as
fl(x) == IF AbsInt(x[1]) > FloatMax * x[2] THEN <<SignOf(x[1]), 0>> ELSE x

FAdd(a, b) ==
    IF IsFinite(a) /\ IsFinite(b) THEN fl(Plus(a, b))
    ELSE IF a = NaN \/ b = NaN THEN NaN
    ELSE IF IsFinite(a) THEN b
    ELSE IF IsFinite(b) \/ a = b THEN a
    ELSE NaN

FSub(a, b) == FAdd(a, <<-b[1], b[2]>>)

FMul(a, b) ==
    IF IsFinite(a) /\ IsFinite(b) THEN fl(Times(a, b))
    ELSE IF a[1] * b[1] = 0 THEN NaN
    ELSE <<SignOf(a[1]) * SignOf(b[1]), 0>>

\* a / b for b # 0
FDiv(a, b) ==
    IF IsFinite(a) /\ IsFinite(b) THEN fl(Over(a, b))
    ELSE IF a = NaN \/ b = NaN THEN NaN
    ELSE IF IsFinite(a) THEN Zero
    ELSE IF IsFinite(b) THEN <<SignOf(a[1]) * SignOf(b[1]), 0>>
    ELSE NaN

\* a < b; every comparison with NaN is false
FLess(a, b) ==
    IF IsFinite(a) /\ IsFinite(b) THEN a[1] * b[2] < b[1] * a[2]
    ELSE IF a = NaN \/ b = NaN \/ a = b THEN FALSE
    ELSE a = <<-1, 0>> \/ b = Inf

\* np.maximum(a, b): NaN propagates
FMax(a, b) == IF a = NaN \/ b = NaN THEN NaN ELSE IF FLess(a, b) THEN b ELSE a

RECURSIVE FSumFrom(_, _)
FSumFrom(acc, xs) == IF xs = <<>> THEN acc ELSE FSumFrom(FAdd(acc, Head(xs)), Tail(xs))

\* np.mean of a non-empty list
FMean(xs) == FDiv(FSumFrom(Zero, xs), Whole(Len(xs)))

\* np.var of a non-empty list: mean(abs(x - x.mean()) ** 2)
FVar(xs) ==
    LET mean == FMean(xs)
    IN  FMean([i \in DOMAIN xs |-> FMul(FSub(xs[i], mean), FSub(xs[i], mean))])

\* the square root of a value that is not negative, to two decimal places
Root(x) ==
    IF ~IsFinite(x) THEN x
    ELSE LET v == (x[1] * 10000) \div x[2]
         IN  Frac(CHOOSE r \in 0..(v + 1) : r * r <= v /\ (r + 1) * (r + 1) > v, 100)

\* np.std of a non-empty list
FStd(xs) == Root(FVar(xs))

\* a finite number whose square is beyond the range
Huge == FloatMax \div 100

\* the trades a request can carry.  confidence is <<>> when the key is
\* absent or null; indicators is <<>> when the key is absent or empty
TradeKinds ==
    [quiet |-> [regime |-> "RANGING", direction |-> "buy", quantity |-> 1,
                timestamp |-> 0, pnl |-> 0, holdingPeriodMinutes |-> 0,
                confidence |-> <<>>, indicators |-> <<>>],
     win |-> [regime |-> "TRENDING_UP", direction |-> "buy", quantity |-> 1,
              timestamp |-> 3600000, pnl |-> 1, holdingPeriodMinutes |-> 1,
              confidence |-> <<1>>,
              indicators |-> [rsi14 |-> 70, bbPosition |-> 1, macdHist |-> -1,
                              trendStrength |-> 1]],
     loss |-> [regime |-> "VOLATILE", direction |-> "sell", quantity |-> 2,
               timestamp |-> 7200000, pnl |-> -1, holdingPeriodMinutes |-> 3,
               confidence |-> <<>>, indicators |-> [rsi14 |-> 30]],
     whale |-> [regime |-> "TRENDING_DOWN", direction |-> "sell", quantity |-> Huge,
                timestamp |-> 7200000, pnl |-> Huge, holdingPeriodMinutes |-> 1,
                confidence |-> <<0>>, indicators |-> <<>>]]

\* the trade lists of at most n trades
TradeLists(n) ==
    UNION {[1..len -> {TradeKinds[kind] : kind \in DOMAIN TradeKinds}] : len \in 0..n}

\* the botTrades of a request: any trade list for b1, winning trades for b2
BotTradeMaps ==
    {[b \in Bots |-> IF b = "b1" THEN ts ELSE [i \in 1..wins |-> TradeKinds.win]] :
     ts \in TradeLists(MaxBotTrades), wins \in 0..MaxBotTrades}

Numbers(xs) == [i \in DOMAIN xs |-> Whole(xs[i])]

Count(xs, Test(_)) == Len(SelectSeq(xs, Test))

RECURSIVE cumsum(_, _)
\* np.cumsum
cumsum(acc, xs) ==
    IF xs = <<>> THEN <<>>
    ELSE <<FAdd(acc, Head(xs))>> \o cumsum(FAdd(acc, Head(xs)), Tail(xs))

RECURSIVE accumulate_max(_)
\* np.maximum.accumulate
accumulate_max(xs) ==
    IF Len(xs) <= 1 THEN xs
    ELSE LET front == accumulate_max(SubSeq(xs, 1, Len(xs) - 1))
         IN  Append(front, FMax(front[Len(front)], xs[Len(xs)]))

RECURSIVE max_of(_)
\* np.max of a non-empty list
max_of(xs) == IF Len(xs) = 1 THEN xs[1] ELSE FMax(Head(xs), max_of(Tail(xs)))

\* feature_extraction.py:26-123  the 20 features of one bot
extract_bot(trades) ==
    LET n == Len(trades)
        timestamps == Column(trades, "timestamp")
        directions == Column(trades, "direction")
        quantities == Numbers(Column(trades, "quantity"))
        regimes == Column(trades, "regime")
        pnls == Numbers(Column(trades, "pnl"))
        holding_periods == Numbers(Column(trades, "holdingPeriodMinutes"))
        with_confidence == SelectSeq(trades, LAMBDA t : t.confidence # <<>>)
        confidences == [i \in DOMAIN with_confidence |->
                           Whole(with_confidence[i].confidence[1])]
        time_span_hours ==
            IF n > 1
            THEN Frac(Kth(timestamps, n) - Kth(timestamps, 1), 3600000)
            ELSE Whole(1)
        trade_freq ==
            FDiv(Whole(n), FMax(time_span_hours, Frac(1, 1000)))
        valid_hp == SelectSeq(holding_periods, LAMBDA h : FLess(Zero, h))
        avg_holding == IF valid_hp # <<>> THEN FMean(valid_hp) ELSE Zero
        hp_std == IF Len(valid_hp) > 1 THEN FStd(valid_hp) ELSE Zero
        buy_count == Count(directions, LAMBDA d : d = "buy")
        direction_bias == Frac(2 * buy_count - n, n)
        switches == Cardinality({i \in 2..n : directions[i] # directions[i - 1]})
        switch_rate == Frac(switches, IF n - 1 > 1 THEN n - 1 ELSE 1)
        avg_size == FMean(quantities)
        size_var == IF n > 1 THEN FVar(quantities) ELSE Zero
        share(regime) == Frac(Count(regimes, LAMBDA r : r = regime), n)
        with_indicators == SelectSeq(trades, LAMBDA t : DOMAIN t.indicators # {})
        indicators == Column(with_indicators, "indicators")
        average(key, default) ==
            IF indicators # <<>>
            THEN FMean([i \in DOMAIN indicators |->
                           IF key \in DOMAIN indicators[i]
                           THEN Whole(indicators[i][key]) ELSE default])
            ELSE default
        trades_with_pnl == SelectSeq(pnls, LAMBDA q : q # Zero)
        wins == Count(trades_with_pnl, LAMBDA q : FLess(Zero, q))
        win_rate ==
            Frac(wins, IF Len(trades_with_pnl) > 1 THEN Len(trades_with_pnl) ELSE 1)
        avg_return == IF pnls # <<>> THEN FMean(pnls) ELSE Zero
        std_return == FStd(pnls)
        sharpe_proxy ==
            IF Len(pnls) > 1
            THEN IF FLess(Zero, std_return) THEN FDiv(avg_return, std_return) ELSE Zero
            ELSE Zero
        cum_pnl == cumsum(Zero, pnls)
        peak == accumulate_max(cum_pnl)
        drawdowns == [i \in DOMAIN cum_pnl |-> FSub(peak[i], cum_pnl[i])]
        max_dd == IF Len(drawdowns) > 0 THEN max_of(drawdowns) ELSE Zero
        avg_conf == IF confidences # <<>> THEN FMean(confidences) ELSE Frac(1, 2)
    IN  <<trade_freq, avg_holding, hp_std, direction_bias, switch_rate,
          avg_size, size_var,
          share("TRENDING_UP"), share("TRENDING_DOWN"), share("RANGING"),
          share("VOLATILE"),
          average("rsi14", Whole(50)), average("bbPosition", Frac(1, 2)),
          average("macdHist", Zero), average("trendStrength", Zero),
          win_rate, avg_return, sharpe_proxy, max_dd, avg_conf>>

\* feature_extraction.py:13-24
extract(botTrades) ==
    LET kept == {b \in DOMAIN botTrades : ~(Len(botTrades[b]) < MinTrades)}
    IN  [botCount |-> Cardinality(kept),
         features |-> [b \in kept |-> extract_bot(botTrades[b])],
         dimensions |-> FeatureDimensions]

\* the payloads of the patterns:extract_features requests sent to the engine:
\* b1 has three trades, b2 has two
ExtractPayloads ==
    {[kind |-> "extract_features",
      botTrades |-> [b \in Bots |->
                       IF b = "b1"
                       THEN <<TradeKinds.win, TradeKinds.loss, TradeKinds.quiet>>
                       ELSE <<TradeKinds.win, TradeKinds.win>>]]}

\* extract tabulated over the botTrades of those payloads and the empty dict
\* that payload.get('botTrades', {}) yields when the key is missing
extract_table ==
    [bt \in {p.botTrades : p \in ExtractPayloads} \cup {<<>>} |-> extract(bt)]

(***************************************************************************)
(* XGBoostPredictor                                                        *)
(***************************************************************************)
\* outcome of a component call: a returned result or a raised exception,
\* together with the predictor state the call leaves behind
Return(result, m, c) ==
    [raised |-> FALSE, error |-> None, result |-> result, models |-> m, train_counts |-> c]

Raise(error, m, c) ==
    [raised |-> TRUE, error |-> error, result |-> NullPayload, models |-> m, train_counts |-> c]

\* _train_xgb / _train_sklearn: the estimator is a function of the training
\* data alone (random_state=42); it remembers the row width and the classes
Fit(payload) == [classes |-> payload.classes, dim |-> payload.dim, n |-> payload.nFeat]

\* model.fit raises ValueError when features and labels disagree in length
FitRaises(payload) == payload.nFeat # payload.nLab

Put(f, k, v) == [x \in DOMAIN f \cup {k} |-> IF x = k THEN v ELSE f[x]]

\* train storing the new estimator in the slot of every bot that has one
train_into_every_slot(payload, m, c) ==
    IF payload.kind # "train" THEN Raise("AttributeError", m, c)
    ELSE IF payload.nFeat < MinSamples \/ payload.nLab < MinSamples
    THEN Return([kind |-> "train", botId |-> payload.botId, trained |-> FALSE,
                 reason |-> "insufficient_data", sampleCount |-> payload.nFeat], m, c)
    ELSE IF Cardinality(payload.classes) < MinClasses
    THEN Return([kind |-> "train", botId |-> payload.botId, trained |-> FALSE,
                 reason |-> "single_class", sampleCount |-> payload.nFeat], m, c)
    ELSE IF FitRaises(payload) THEN Raise("ValueError", m, c)
    ELSE Return([kind |-> "train", botId |-> payload.botId, trained |-> TRUE,
                 reason |-> None, sampleCount |-> payload.nFeat],
                [x \in DOMAIN m \cup {payload.botId} |-> Fit(payload)],
                Put(c, payload.botId, payload.nFeat))

\* train keeping the estimator a bot already has instead of replacing it
train_keeps_first_model(payload, m, c) ==
    IF payload.kind # "train" THEN Raise("AttributeError", m, c)
    ELSE IF payload.nFeat < MinSamples \/ payload.nLab < MinSamples
    THEN Return([kind |-> "train", botId |-> payload.botId, trained |-> FALSE,
                 reason |-> "insufficient_data", sampleCount |-> payload.nFeat], m, c)
    ELSE IF Cardinality(payload.classes) < MinClasses
    THEN Return([kind |-> "train", botId |-> payload.botId, trained |-> FALSE,
                 reason |-> "single_class", sampleCount |-> payload.nFeat], m, c)
    ELSE IF FitRaises(payload) THEN Raise("ValueError", m, c)
    ELSE Return([kind |-> "train", botId |-> payload.botId, trained |-> TRUE,
                 reason |-> None, sampleCount |-> payload.nFeat],
                IF payload.botId \in DOMAIN m THEN m
                ELSE Put(m, payload.botId, Fit(payload)),
                Put(c, payload.botId, payload.nFeat))

\* train without the single-class rejection
train_without_class_check(payload, m, c) ==
    IF payload.kind # "train" THEN Raise("AttributeError", m, c)
    ELSE IF payload.nFeat < MinSamples \/ payload.nLab < MinSamples
    THEN Return([kind |-> "train", botId |-> payload.botId, trained |-> FALSE,
                 reason |-> "insufficient_data", sampleCount |-> payload.nFeat], m, c)
    ELSE IF FitRaises(payload) THEN Raise("ValueError", m, c)
    ELSE Return([kind |-> "train", botId |-> payload.botId, trained |-> TRUE,
                 reason |-> None, sampleCount |-> payload.nFeat],
                Put(m, payload.botId, Fit(payload)),
                Put(c, payload.botId, payload.nFeat))

\* train rejecting only when features and labels are both too few
train_needs_both_short(payload, m, c) ==
    IF payload.kind # "train" THEN Raise("AttributeError", m, c)
    ELSE IF payload.nFeat < MinSamples /\ payload.nLab < MinSamples
    THEN Return([kind |-> "train", botId |-> payload.botId, trained |-> FALSE,
                 reason |-> "insufficient_data", sampleCount |-> payload.nFeat], m, c)
    ELSE IF Cardinality(payload.classes) < MinClasses
    THEN Return([kind |-> "train", botId |-> payload.botId, trained |-> FALSE,
                 reason |-> "single_class", sampleCount |-> payload.nFeat], m, c)
    ELSE IF FitRaises(payload) THEN Raise("ValueError", m, c)
    ELSE Return([kind |-> "train", botId |-> payload.botId, trained |-> TRUE,
                 reason |-> None, sampleCount |-> payload.nFeat],
                Put(m, payload.botId, Fit(payload)),
                Put(c, payload.botId, payload.nFeat))

train(payload, m, c) ==
    IF payload.kind # "train" THEN Raise("AttributeError", m, c)
    ELSE IF payload.nFeat < MinSamples \/ payload.nLab < MinSamples
    THEN Return([kind |-> "train", botId |-> payload.botId, trained |-> FALSE,
                 reason |-> "insufficient_data", sampleCount |-> payload.nFeat], m, c)
    ELSE IF Cardinality(payload.classes) < MinClasses
    THEN Return([kind |-> "train", botId |-> payload.botId, trained |-> FALSE,
                 reason |-> "single_class", sampleCount |-> payload.nFeat], m, c)
    ELSE IF FitRaises(payload) THEN Raise("ValueError", m, c)
    ELSE Return([kind |-> "train", botId |-> payload.botId, trained |-> TRUE,
                 reason |-> None, sampleCount |-> payload.nFeat],
                Put(m, payload.botId, Fit(payload)),
                Put(c, payload.botId, payload.nFeat))

\* the absent model, for results that no estimator answered
NoModel == [classes |-> {}, dim |-> 0, n |-> 0]

\* model.predict_proba raises ValueError unless the row has the fitted width
predict(payload, m, c) ==
    IF payload.kind # "predict" THEN Raise("AttributeError", m, c)
    ELSE IF payload.botId \notin DOMAIN m
    THEN Return([kind |-> "predict", botId |-> payload.botId, predicted |-> FALSE,
                 reason |-> "no_model", by |-> NoModel, modelAccuracy |-> 0], m, c)
    ELSE IF m[payload.botId].dim # payload.dim THEN Raise("ValueError", m, c)
    ELSE Return([kind |-> "predict", botId |-> payload.botId, predicted |-> TRUE,
                 reason |-> None, by |-> m[payload.botId],
                 modelAccuracy |-> IF payload.botId \in DOMAIN c
                                   THEN c[payload.botId] ELSE 0], m, c)

\* predict_all leaving out the bots that have no model
predict_all_skips_untrained(payload, m, c) ==
    IF payload.kind # "predict_all" THEN Raise("AttributeError", m, c)
    ELSE LET input == {b \in Bots : payload.predictions[b] # 0 /\ b \in DOMAIN m}
             each  == [b \in input |->
                          predict([kind |-> "predict", botId |-> b,
                                   dim |-> payload.predictions[b]], m, c)]
         IN  IF \E b \in input : each[b].raised
             THEN Raise("ValueError", m, c)
             ELSE Return([kind |-> "predict_all",
                          predictions |-> [b \in input |-> each[b].result],
                          botCount |-> Cardinality(input)], m, c)

predict_all(payload, m, c) ==
    IF payload.kind # "predict_all" THEN Raise("AttributeError", m, c)
    ELSE LET input == {b \in Bots : payload.predictions[b] # 0}
             each  == [b \in input |->
                          predict([kind |-> "predict", botId |-> b,
                                   dim |-> payload.predictions[b]], m, c)]
         IN  IF \E b \in input : each[b].raised
             THEN Raise("ValueError", m, c)
             ELSE Return([kind |-> "predict_all",
                          predictions |-> [b \in input |-> each[b].result],
                          botCount |-> Cardinality(input)], m, c)

(***************************************************************************)
(* engine.py                                                               *)
(***************************************************************************)
\* _get_module: the keys _modules holds after asking for `name`
get_module(name, mods) ==
    IF name \in mods THEN mods
    ELSE CASE name = "shapley"     -> mods \cup {"shapley"}
           [] name = "patterns"    -> mods \cup {"feature_extractor", "umap_reducer",
                                                 "hdbscan_clusterer", "patterns"}
           [] name = "xgboost"     -> mods \cup {"xgboost"}
           [] name = "crowding"    -> mods \cup {"crowding"}
           [] name = "niche"       -> mods \cup {"niche"}
           [] name = "fingerprint" -> mods \cup {"regime_matrix", "fingerprint"}
           [] OTHER                -> mods

\* the component a request type is routed to ("" for health:ping, which needs none)
ModuleOf(type) ==
    CASE type = "shapley:batch"              -> "shapley"
      [] type = "patterns:extract_features"  -> "patterns"
      [] type = "patterns:cluster"           -> "patterns"
      [] type = "competitive:train"          -> "xgboost"
      [] type = "competitive:predict"        -> "xgboost"
      [] type = "competitive:predict_all"    -> "xgboost"
      [] type = "competitive:crowding"       -> "crowding"
      [] type = "competitive:niches"         -> "niche"
      [] type = "fingerprint:regime_matrix"  -> "fingerprint"
      [] OTHER                               -> ""

\* a component that holds no state: it reads a dict payload and returns a result
stateless(type, payload, m, c) ==
    IF payload.kind = "null" THEN Raise("AttributeError", m, c)
    ELSE Return([kind |-> type], m, c)

\* engine.py:59  payload.get('botTrades', {})
bot_trades_of(payload) ==
    IF "botTrades" \in DOMAIN payload THEN payload.botTrades ELSE <<>>

\* the dict extract returns, as the payload of the response; `met` is the
\* number of cached bots a caching extractor would add to botCount
extract_result(e, met) ==
    [kind |-> "patterns:extract_features", botCount |-> e.botCount + met,
     features |-> e.features, dimensions |-> e.dimensions]

\* a feature extractor that counts the bots it has met in the model cache
extract_features_with_cache(payload, m, c) ==
    IF payload.kind = "null" THEN Raise("AttributeError", m, c)
    ELSE Return(extract_result(extract_table[bot_trades_of(payload)],
                               Cardinality(DOMAIN m)), m, c)

\* engine.py:57-60  extractor.extract(payload); payload.get raises on null
extract_features(payload, m, c) ==
    IF payload.kind = "null" THEN Raise("AttributeError", m, c)
    ELSE Return(extract_result(extract_table[bot_trades_of(payload)], 0), m, c)

\* the branch of handle_request's if/elif chain that computes `result`
call(type, payload, m, c) ==
    CASE type = "health:ping"             -> Return([kind |-> "health", status |-> "ok"], m, c)
      [] type = "patterns:extract_features" -> extract_features(payload, m, c)
      [] type = "competitive:train"       -> train(payload, m, c)
      [] type = "competitive:predict"     -> predict(payload, m, c)
      [] type = "competitive:predict_all" -> predict_all(payload, m, c)
      [] OTHER                            -> stateless(type, payload, m, c)

\* the final else branch falling through to the result envelope
unknown_response_as_result(r, elapsed) ==
    [id |-> r.id, type |-> <<r.type, "result">>, success |-> TRUE,
     error |-> <<>>, payload |-> NullPayload, processingTimeMs |-> elapsed]

\* the response of the final else branch (engine.py:98-106)
unknown_response(r, elapsed) ==
    [id |-> r.id, type |-> <<r.type, "error">>, success |-> FALSE,
     error |-> <<"Unknown request type: ", r.type>>, payload |-> NullPayload,
     processingTimeMs |-> elapsed]

\* the result envelope carrying the error key of the except clause
result_response_with_error(r, result, elapsed) ==
    [id |-> r.id, type |-> <<r.type, "result">>, success |-> TRUE,
     error |-> <<"">>, payload |-> result, processingTimeMs |-> elapsed]

\* the response after a handler returned (engine.py:108-115): no "error" key
result_response(r, result, elapsed) ==
    [id |-> r.id, type |-> <<r.type, "result">>, success |-> TRUE,
     error |-> <<>>, payload |-> result, processingTimeMs |-> elapsed]

\* the except clause answering without the request's id
exception_response_without_id(r, e, elapsed) ==
    [id |-> None, type |-> <<r.type, "error">>, success |-> FALSE,
     error |-> <<e>>, payload |-> NullPayload, processingTimeMs |-> elapsed]

\* the response of the except clause (engine.py:117-127): error is str(e)
exception_response(r, e, elapsed) ==
    [id |-> r.id, type |-> <<r.type, "error">>, success |-> FALSE,
     error |-> <<e>>, payload |-> NullPayload, processingTimeMs |-> elapsed]

\* engine.py:108-127  the envelope for the outcome `out` of the branch taken
respond(r, out, mods, elapsed) ==
    [response |-> IF out.raised THEN exception_response(r, out.error, elapsed)
                  ELSE result_response(r, out.result, elapsed),
     modules |-> get_module(ModuleOf(r.type), mods),
     models |-> out.models, train_counts |-> out.train_counts]

\* handle_request: the response and the state the call leaves behind
handle_request(r, mods, m, c, elapsed) ==
    IF r.type \notin KnownTypes
    THEN [response |-> unknown_response(r, elapsed), modules |-> mods,
          models |-> m, train_counts |-> c]
    ELSE respond(r, call(r.type, r.payload, m, c), mods, elapsed)

(***************************************************************************)
(* main: one action per kind of input line                                 *)
(***************************************************************************)
EngineInit ==
    /\ pc = "running"
    /\ modules = {}
    /\ models = <<>>
    /\ train_counts = <<>>
    /\ req = NoRequest
    /\ resp = NoResponse
    /\ requests = 0
    /\ responses = 0
    /\ lines = 0
    /\ last = "none"
    /\ last_fit = [b \in Bots |-> NoModel]

\* no stand-alone call of compute_batch is in progress
ShapleyIdle ==
    /\ sh_pc = "idle"
    /\ sh_trades = <<>>
    /\ sh_perms = 0
    /\ sh_results = <<>>
    /\ sh_picks = <<>>

\* the result of a clustering that has not returned
NoClustering == [archetypes |-> <<>>, assignments |-> <<>>, noise |-> <<>>]

\* no stand-alone call of cluster is in progress
ClusterIdle ==
    /\ cl_pc = "idle"
    /\ cl_embeddings = {}
    /\ cl_min_size = 0
    /\ cl_hdbscan = FALSE
    /\ cl_k = 0
    /\ cl_best_score = 0
    /\ cl_labels = <<>>
    /\ cl_result = NoClustering

\* no stand-alone call of analyze is in progress
NicheIdle ==
    /\ ni_pc = "idle"
    /\ ni_archetypes = <<>>
    /\ ni_perf = <<>>
    /\ ni_result = [cells |-> <<>>]

\* no run of the extract_features, cluster, niches pipeline is in progress
PipelineIdle ==
    /\ pl_pc = "idle"
    /\ pl_botTrades = <<>>
    /\ pl_hdbscan = FALSE
    /\ pl_features = {}
    /\ pl_clustering = NoClustering
    /\ pl_niches = [cells |-> <<>>]

\* crowding.py:20  what detect returns for an empty trade list
no_alerts == [timestamp |-> 0, alerts |-> <<>>]

\* no competitive:crowding request is being answered
CrowdingIdle ==
    /\ cr_pc = "idle"
    /\ cr_trades = <<>>
    /\ cr_threshold = <<3, 5>>
    /\ cr_result = no_alerts

\* no patterns:extract_features request is being answered
ExtractIdle ==
    /\ fx_pc = "idle"
    /\ fx_botTrades = <<>>
    /\ fx_result = [botCount |-> 0]

\* umap_reducer.py:21  what reduce returns for an empty features dict
no_embeddings == [botIds |-> <<>>, dimensions |-> 5, embeddings |-> <<>>]

\* no reduce call is in progress
ReduceIdle ==
    /\ rd_pc = "idle"
    /\ rd_features = <<>>
    /\ rd_umap = FALSE
    /\ rd_result = no_embeddings

\* no patterns:cluster request is being answered
TraitsIdle ==
    /\ tr_pc = "idle"
    /\ tr_features = <<>>
    /\ tr_embeddings = <<>>
    /\ tr_archetypes = <<>>

\* no shapley:batch request is being repeated
RerunIdle ==
    /\ rr_trades = <<>>
    /\ rr_perms = 0
    /\ rr_str_hash = <<>>
    /\ rr_rng = <<>>
    /\ rr_first = <<>>
    /\ rr_again = <<>>
    /\ rr_other = <<>>

\* every component but the named one is idle
IdleExcept(component) ==
    /\ IF component = "shapley" THEN TRUE ELSE ShapleyIdle
    /\ IF component = "cluster" THEN TRUE ELSE ClusterIdle
    /\ IF component = "niche" THEN TRUE ELSE NicheIdle
    /\ IF component = "pipeline" THEN TRUE ELSE PipelineIdle
    /\ IF component = "crowding" THEN TRUE ELSE CrowdingIdle
    /\ IF component = "extract" THEN TRUE ELSE ExtractIdle
    /\ IF component = "reduce" THEN TRUE ELSE ReduceIdle
    /\ IF component = "traits" THEN TRUE ELSE TraitsIdle
    /\ IF component = "rerun" THEN TRUE ELSE RerunIdle

Init == EngineInit /\ IdleExcept("engine")

CanRead == pc = "running" /\ lines < MaxLines

\* engine.py:139-141  a line that is empty after strip() is skipped
BlankLine ==
    /\ CanRead
    /\ lines' = lines + 1
    /\ last' = "blank"
    /\ UNCHANGED <<pc, modules, models, train_counts, req, resp, requests, responses,
                   last_fit, besideEngine>>

\* engine.py:142-146  json.loads raises JSONDecodeError: logged, skipped
InvalidJSON ==
    /\ CanRead
    /\ lines' = lines + 1
    /\ last' = "invalid"
    /\ UNCHANGED <<pc, modules, models, train_counts, req, resp, requests, responses,
                   last_fit, besideEngine>>

\* engine.py:148, 45  the line is valid JSON but no object (a list, a number,
\* a string, null): req.get raises AttributeError before the try block
NonObject ==
    /\ CanRead
    /\ lines' = lines + 1
    /\ last' = "nonobject"
    /\ pc' = "crashed"
    /\ UNCHANGED <<modules, models, train_counts, req, resp, requests, responses,
                   last_fit, besideEngine>>

\* a response whose payload reports trained:true
ReportsTrained(response) ==
    /\ response.success
    /\ response.payload.kind = "train"
    /\ response.payload.trained

\* engine.py:148-150  handle the request object and write its response
Dispatch(r) ==
    /\ CanRead
    /\ \E elapsed \in ElapsedMs :
       \E h \in {handle_request(r, modules, models, train_counts, elapsed)} :
           /\ resp' = h.response
           /\ modules' = h.modules
           /\ models' = h.models
           /\ train_counts' = h.train_counts
           /\ responses' = responses + 1
           /\ last_fit' = IF ReportsTrained(h.response)
                          THEN [last_fit EXCEPT ![r.payload.botId] = Fit(r.payload)]
                          ELSE last_fit
    /\ req' = r
    /\ requests' = requests + 1
    /\ lines' = lines + 1
    /\ last' = "request"
    /\ UNCHANGED <<pc, besideEngine>>

\* the payloads a caller sends with a request of the given type
PayloadsOf(type) ==
    CASE type = "competitive:train"         -> TrainPayloads \cup {NullPayload}
      [] type = "competitive:predict"       -> PredictPayloads \cup {NullPayload}
      [] type = "competitive:predict_all"   -> PredictAllPayloads \cup {NullPayload}
      [] type = "patterns:extract_features" ->
             ExtractPayloads \cup {EmptyPayload, NullPayload}
      [] type \in UnknownTypes              -> {EmptyPayload}
      [] OTHER                              -> {EmptyPayload, NullPayload}

Request(type) ==
    \E id \in Ids, payload \in PayloadsOf(type) :
        Dispatch([id |-> id, type |-> type, payload |-> payload])

HealthPing == Request("health:ping")
ShapleyBatch == Request("shapley:batch")
ExtractFeatures == Request("patterns:extract_features")
Cluster == Request("patterns:cluster")
Train == Request("competitive:train")
Predict == Request("competitive:predict")
PredictAll == Request("competitive:predict_all")
Crowding == Request("competitive:crowding")
Niches == Request("competitive:niches")
RegimeMatrix == Request("fingerprint:regime_matrix")
UnknownType == \E t \in UnknownTypes : Request(t)

\* engine.py:138  stdin is exhausted: the for loop ends
EndOfInput ==
    /\ pc = "running"
    /\ pc' = "done"
    /\ UNCHANGED <<modules, models, train_counts, req, resp, requests, responses,
                   lines, last, last_fit, besideEngine>>

Next ==
    \/ BlankLine
    \/ InvalidJSON
    \/ NonObject
    \/ HealthPing
    \/ ShapleyBatch
    \/ ExtractFeatures
    \/ Cluster
    \/ Train
    \/ Predict
    \/ PredictAll
    \/ Crowding
    \/ Niches
    \/ RegimeMatrix
    \/ UnknownType
    \/ EndOfInput

Spec == Init /\ [][Next]_vars

(***************************************************************************)
(* ShapleyAttribution (shapley/attribution.py)                             *)
(*                                                                         *)
(* Returns are counted in units of 0.000001, the grid of round(x, 6): a    *)
(* pnlPercentage of 0.000003 is 3.  Intermediate values are exact          *)
(* fractions <<numerator, denominator>> in lowest terms with a positive    *)
(* denominator; the rounding errors of double arithmetic (about 1e-16) are *)
(* far below the grid and are left out, so round(x, 6) is the documented   *)
(* rounding of the exact value.                                            *)
(***************************************************************************)
Symbols == {"AAA", "BBB"}

Regimes == {"RANGING", "VOLATILE"}

Directions == {"buy", "sell"}

Quantities == {1, 2}

\* pnlPercentage values of the trades in units of 0.000001: two losses, so
\* that a comparable trade can lose more than the trade attributed, and a
\* gain that is no multiple of 4
Pnls == {-200, -100, 101}

\* a trade of the payload; id 0 is a trade without an "id" key
Trade(id, b) ==
    [id |-> id, symbol |-> b[1], regime |-> b[2], direction |-> b[3],
     quantity |-> b[4], pnlPercentage |-> b[5]]

TradeBodies == Symbols \X Regimes \X Directions \X Quantities \X Pnls

\* the batches of n trades: either every trade carries its own id, or none
\* carries an id.  The code only compares symbols and regimes for equality
\* and treats the two directions alike, so the first trade is taken to be a
\* RANGING buy of AAA and the other trades range over every combination.
Batches(n) ==
    {[i \in 1..n |-> Trade(IF withIds THEN i ELSE 0, bodies[i])] :
        withIds \in BOOLEAN,
        bodies \in {b \in [1..n -> TradeBodies] :
                       /\ b[1][1] = "AAA"
                       /\ b[1][2] = "RANGING"
                       /\ b[1][3] = "buy"}}

\* attribution.py:32
symbol_trades(trade, all_trades) ==
    SelectSeq(all_trades, LAMBDA t : t.symbol = trade.symbol /\ t.id # trade.id)

\* attribution.py:113-127  every number of the record is rounded to 6 decimals
shapley_build_result(trade, regime_c, timing_c, direction_c, sizing_c, ret_random, ret_median, ret_opposite) ==
    [tradeId |-> trade.id,
     totalReturn |-> trade.pnlPercentage,
     regimeContribution |-> round6(regime_c),
     timingContribution |-> round6(timing_c),
     directionContribution |-> round6(direction_c),
     sizingContribution |-> round6(sizing_c),
     returnIfRandomEntry |-> round6(ret_random),
     returnIfMedianSize |-> round6(ret_median),
     returnIfOppositeDirection |-> round6(ret_opposite)]

\* attribution.py:36-38  no comparable trade: equal split
equal_split(trade) ==
    LET pnl_pct == Whole(trade.pnlPercentage)
        quarter == IF trade.pnlPercentage # 0 THEN Over(pnl_pct, Whole(4)) ELSE Zero
    IN  shapley_build_result(trade, quarter, quarter, quarter, quarter,
                             Times(pnl_pct, <<1, 2>>), Times(pnl_pct, <<4, 5>>),
                             Neg(pnl_pct))

\* attribution.py:49-56
raw_regime(trade, others) ==
    LET other_regime == SelectSeq(others, LAMBDA t : t.regime # trade.regime)
        same_regime == SelectSeq(others, LAMBDA t : t.regime = trade.regime)
    IN  Minus(MeanOrZero(Column(same_regime, "pnlPercentage")),
              MeanOrZero(Column(other_regime, "pnlPercentage")))

\* attribution.py:59-62, 83  picks[i] is the index rng.choice draws in round i
raw_timing(trade, others, picks) ==
    Mean([i \in DOMAIN picks |-> trade.pnlPercentage - others[picks[i]].pnlPercentage])

\* attribution.py:67-71
raw_direction(trade, others) ==
    LET opp_dir == IF trade.direction = "buy" THEN "sell" ELSE "buy"
        opp_trades == SelectSeq(others, LAMBDA t : t.direction = opp_dir)
    IN  Minus(Whole(trade.pnlPercentage), MeanOrZero(Column(opp_trades, "pnlPercentage")))

\* attribution.py:74-80
raw_sizing(trade, others) ==
    LET median_size == Median(Column(others, "quantity"))
    IN  IF median_size[1] > 0 /\ trade.quantity > 0
        THEN LET size_ratio == Over(Whole(trade.quantity), median_size)
             IN  IF size_ratio # Whole(1)
                 THEN Times(Whole(trade.pnlPercentage),
                            Minus(Whole(1), Over(Whole(1), size_ratio)))
                 ELSE Zero
        ELSE Zero

\* the scaled factors reported as they are, without the residual
normalise_without_residual(pnl_pct, raw) ==
    LET raw_total == Plus(Plus(AbsFrac(raw[1]), AbsFrac(raw[2])),
                          Plus(AbsFrac(raw[3]), AbsFrac(raw[4])))
    IN  IF raw_total[1] > 0
        THEN LET scale == AbsFrac(Over(pnl_pct, raw_total))
             IN  <<Times(raw[1], scale), Times(raw[2], scale),
                   Times(raw[3], scale), Times(raw[4], scale)>>
        ELSE LET quarter == Over(pnl_pct, Whole(4))
             IN  <<quarter, quarter, quarter, quarter>>

\* attribution.py:88-100  scale the raw factors, push the residual into timing
normalise(pnl_pct, raw) ==
    LET raw_total == Plus(Plus(AbsFrac(raw[1]), AbsFrac(raw[2])),
                          Plus(AbsFrac(raw[3]), AbsFrac(raw[4])))
    IN  IF raw_total[1] > 0
        THEN LET scale == AbsFrac(Over(pnl_pct, raw_total))
                 regime_c == Times(raw[1], scale)
                 timing_c == Times(raw[2], scale)
                 direction_c == Times(raw[3], scale)
                 sizing_c == Times(raw[4], scale)
                 remainder == Minus(pnl_pct, Plus(Plus(regime_c, timing_c),
                                                  Plus(direction_c, sizing_c)))
             IN  <<regime_c, Plus(timing_c, remainder), direction_c, sizing_c>>
        ELSE LET quarter == Over(pnl_pct, Whole(4))
             IN  <<quarter, quarter, quarter, quarter>>

\* attribution.py:82-85  the means of the four factors over the rounds
raw_factors(trade, others, picks) ==
    <<raw_regime(trade, others), raw_timing(trade, others, picks),
      raw_direction(trade, others), raw_sizing(trade, others)>>

\* the draws of the random generator: one index into the comparison set per
\* round, none when the set is empty (the generator is not built then)
Draws(trade, all_trades, n_perms) ==
    LET others == symbol_trades(trade, all_trades)
    IN  IF others = <<>> THEN {<<>>} ELSE [1..n_perms -> 1..Len(others)]

\* attribution.py:22-111  the record _attribute_single returns for given draws
attribute_single(trade, all_trades, picks) ==
    LET others == symbol_trades(trade, all_trades)
        pnl_pct == Whole(trade.pnlPercentage)
    IN  IF others = <<>> THEN equal_split(trade)
        ELSE LET c == normalise(pnl_pct, raw_factors(trade, others, picks))
                 median_size == Median(Column(others, "quantity"))
                 return_if_median ==
                     IF trade.quantity > 0
                     THEN Times(pnl_pct, Over(median_size, Whole(trade.quantity)))
                     ELSE pnl_pct
             IN  shapley_build_result(trade, c[1], c[2], c[3], c[4],
                                      Mean(Column(others, "pnlPercentage")),
                                      return_if_median, Neg(pnl_pct))

\* a shapley:batch payload arrives at compute_batch
ShapleyInit ==
    /\ sh_pc = "loop"
    /\ \E n \in 1..MaxTrades : sh_trades \in Batches(n)
    /\ sh_perms \in 1..MaxPerms
    /\ sh_results = <<>>
    /\ sh_picks = <<>>

\* attribution.py:16-18  one round of the loop over the trades
AttributeSingle ==
    /\ sh_pc = "loop"
    /\ Len(sh_results) < Len(sh_trades)
    /\ LET trade == sh_trades[Len(sh_results) + 1]
       IN  \E picks \in Draws(trade, sh_trades, sh_perms) :
               /\ sh_results' = Append(sh_results,
                                        attribute_single(trade, sh_trades, picks))
               /\ sh_picks' = Append(sh_picks, picks)
    /\ UNCHANGED <<sh_pc, sh_trades, sh_perms, besideShapley>>

\* attribution.py:20  the loop is over: {'attributions': results, ...}
ComputeBatchReturn ==
    /\ sh_pc = "loop"
    /\ Len(sh_results) = Len(sh_trades)
    /\ sh_pc' = "returned"
    /\ UNCHANGED <<sh_trades, sh_perms, sh_results, sh_picks, besideShapley>>

InitShapley == EngineInit /\ IdleExcept("shapley") /\ ShapleyInit

NextShapley ==
    \/ AttributeSingle
    \/ ComputeBatchReturn

SpecShapley == InitShapley /\ [][NextShapley]_vars

(***************************************************************************)
(* One shapley:batch request handled twice by one engine process and once  *)
(* by another run of the engine (attribution.py:11-20, 46, 61).            *)
(*                                                                         *)
(* A trade id is <<"str", k>> for the string "t<k>" or <<"int", k>> for    *)
(* the number k.  hash() of a number is the number; hash() of a string is  *)
(* salted per process (the engine sets no PYTHONHASHSEED), so each process *)
(* has its own table of string hashes.  RandomState is a fixed algorithm:  *)
(* one stream per seed, the same in every process.  Seeds are scaled down  *)
(* from 32 bits to 1.                                                      *)
(***************************************************************************)
StringIds == 1..3

Seeds == {0, 1}

\* the three trades of the repeated batch: all on one symbol, so that each
\* has the two others to compare with
RerunBatches ==
    {[i \in StringIds |->
         Trade(<<kind, i>>, <<"AAA", "RANGING", "buy", 1, pnls[i]>>)] :
        kind \in {"str", "int"}, pnls \in [StringIds -> Pnls]}

\* attribution.py:46  hash(trade.get('id', '')) & 0xFFFFFFFF
seed_of(id, str_hash) ==
    IF id[1] = "int" THEN id[2] % Cardinality(Seeds) ELSE str_hash[id[2]]

\* attribution.py:61  rng.choice(all_returns): the position the next number
\* of the stream selects among n_returns entries
choice(number, n_returns) == 1 + (number * n_returns) \div 2

\* attribution.py:46-62  the positions drawn in the n_perms rounds
seeded_picks(trade, all_trades, n_perms, str_hash, rng) ==
    LET others == symbol_trades(trade, all_trades)
    IN  IF others = <<>> THEN <<>>
        ELSE [round \in 1..n_perms |->
                 choice(rng[seed_of(trade.id, str_hash)][round], Len(others))]

\* attribution.py:11-20  the attributions of a batch in a process whose
\* string hashes are str_hash
compute_batch(trades, n_perms, str_hash, rng) ==
    [i \in DOMAIN trades |->
        attribute_single(trades[i], trades,
                         seeded_picks(trades[i], trades, n_perms, str_hash, rng))]

\* two engine processes are started; the request is about to be sent
RerunInit ==
    /\ rr_trades \in RerunBatches
    /\ rr_perms \in 1..MaxPerms
    /\ rr_str_hash \in [1..2 -> [StringIds -> Seeds]]
    /\ rr_rng \in [Seeds -> [1..rr_perms -> {0, 1}]]
    /\ rr_first = <<>>
    /\ rr_again = <<>>
    /\ rr_other = <<>>

\* the first process handles the request
ComputeFirst ==
    /\ rr_first = <<>>
    /\ rr_first' = compute_batch(rr_trades, rr_perms, rr_str_hash[1], rr_rng)
    /\ UNCHANGED <<rr_trades, rr_perms, rr_str_hash, rr_rng, rr_again, rr_other,
                   besideRerun>>

\* the first process handles the same request a second time
ComputeAgain ==
    /\ rr_first # <<>>
    /\ rr_again = <<>>
    /\ rr_again' = compute_batch(rr_trades, rr_perms, rr_str_hash[1], rr_rng)
    /\ UNCHANGED <<rr_trades, rr_perms, rr_str_hash, rr_rng, rr_first, rr_other,
                   besideRerun>>

\* the process of another run of the engine handles the same request
ComputeInOtherRun ==
    /\ rr_other = <<>>
    /\ rr_other' = compute_batch(rr_trades, rr_perms, rr_str_hash[2], rr_rng)
    /\ UNCHANGED <<rr_trades, rr_perms, rr_str_hash, rr_rng, rr_first, rr_again,
                   besideRerun>>

InitRerun == EngineInit /\ IdleExcept("rerun") /\ RerunInit

NextRerun ==
    \/ ComputeFirst
    \/ ComputeAgain
    \/ ComputeInOtherRun

SpecRerun == InitRerun /\ [][NextRerun]_vars

(***************************************************************************)
(* HDBSCANClusterer (patterns/hdbscan_clusterer.py)                        *)
(*                                                                         *)
(* Bots are numbered in the sort order of their ids.  The 5D coordinates   *)
(* are left out and with them the centroid, distance, coords5D and         *)
(* dominantTraits entries of the result; the labels and silhouette scores  *)
(* the libraries compute from the coordinates are any they can return.     *)
(***************************************************************************)
BotPool == 1..MaxBots

\* payload minClusterSize
MinClusterSizes == {2, 3}

\* values of the silhouette coefficient
Scores == {-1, 0, 1}

RECURSIVE SortedSeq(_)
\* sorted(S) for a set of integers
SortedSeq(S) ==
    IF S = {} THEN <<>>
    ELSE LET least == CHOOSE x \in S : \A y \in S : x <= y
         IN  <<least>> \o SortedSeq(S \ {least})

Range(s) == {s[i] : i \in DOMAIN s}

\* hdbscan_clusterer.py:26
bot_ids == SortedSeq(cl_embeddings)

\* hdbscan_clusterer.py:41-48  HDBSCAN.fit_predict: clusters are numbered from
\* 0, each has at least min_cluster_size points, the other points are noise
HdbscanLabels(n, min_cluster_size) ==
    {l \in [1..n -> NoiseLabel..(n \div min_cluster_size) - 1] :
        LET used == Range(l) \ {NoiseLabel}
        IN  /\ used = 0..Cardinality(used) - 1
            /\ \A c \in used :
                   Cardinality({i \in 1..n : l[i] = c}) >= min_cluster_size}

\* hdbscan_clusterer.py:61-62  KMeans.fit_predict: a label below k per point
KMeansLabels(n, k) == [1..n -> 0..k - 1]

\* hdbscan_clusterer.py:59
max_k(n, min_cluster_size) ==
    IF KMax < n \div min_cluster_size THEN KMax ELSE n \div min_cluster_size

\* hdbscan_clusterer.py:80-81  [bot_ids[i] for i, l in enumerate(labels) if l == label]
member_bots(ids, labels, label) ==
    LET member_indices == SortedSeq({i \in DOMAIN labels : labels[i] = label})
    IN  [j \in DOMAIN member_indices |-> ids[member_indices[j]]]

RECURSIVE assign(_, _, _)
\* assignments[bid] = {'archetypeId': ...} for every bid of a list, in order
assign(assignments, bots, archetypeId) ==
    IF bots = <<>> THEN assignments
    ELSE assign(Put(assignments, Head(bots), [archetypeId |-> archetypeId]),
                Tail(bots), archetypeId)

RECURSIVE assign_members(_, _)
\* hdbscan_clusterer.py:93-100  for each archetype, in order
assign_members(assignments, archetypes) ==
    IF archetypes = <<>> THEN assignments
    ELSE assign_members(assign(assignments, Head(archetypes).memberBotIds,
                               Head(archetypes).id),
                        Tail(archetypes))

\* hdbscan_clusterer.py:115-116  the silhouette score is computed
scored(labels) ==
    LET non_noise == {i \in DOMAIN labels : labels[i] # NoiseLabel}
    IN  /\ Cardinality({labels[i] : i \in non_noise}) > 1
        /\ Cardinality(non_noise) > 2

cluster_build_result_keeps_noise_label(ids, labels, sil_score) ==
    LET unique_labels == SortedSeq(Range(labels))
        archetypes == [j \in DOMAIN unique_labels |->
                          [id |-> unique_labels[j],
                           memberBotIds |-> member_bots(ids, labels, unique_labels[j])]]
        noise == member_bots(ids, labels, NoiseLabel)
    IN  [archetypes |-> archetypes,
         assignments |-> assign(assign_members(<<>>, archetypes), noise, NoiseLabel),
         noise |-> noise,
         silhouetteScore |-> sil_score,
         clusterCount |-> Len(archetypes)]

\* hdbscan_clusterer.py:71-126
cluster_build_result(ids, labels, sil_score) ==
    LET unique_labels == SortedSeq(Range(labels) \ {NoiseLabel})
        archetypes == [j \in DOMAIN unique_labels |->
                          [id |-> unique_labels[j],
                           memberBotIds |-> member_bots(ids, labels, unique_labels[j])]]
        noise == member_bots(ids, labels, NoiseLabel)
    IN  [archetypes |-> archetypes,
         assignments |-> assign(assign_members(<<>>, archetypes), noise, NoiseLabel),
         noise |-> noise,
         silhouetteScore |-> sil_score,
         clusterCount |-> Len(archetypes)]

\* variant: the last bot is left out of the archetype's member list
single_cluster_without_last(ids) ==
    [archetypes |-> <<[id |-> 0, memberBotIds |-> SubSeq(ids, 1, Len(ids) - 1)]>>,
     assignments |-> assign(<<>>, ids, 0),
     noise |-> <<>>,
     silhouetteScore |-> 0,
     clusterCount |-> 1]

\* hdbscan_clusterer.py:152-175
single_cluster(ids) ==
    [archetypes |-> <<[id |-> 0, memberBotIds |-> ids]>>,
     assignments |-> assign(<<>>, ids, 0),
     noise |-> <<>>,
     silhouetteScore |-> 0,
     clusterCount |-> 1]

\* hdbscan_clusterer.py:23-24
empty_result ==
    [archetypes |-> <<>>, assignments |-> <<>>, noise |-> <<>>,
     silhouetteScore |-> 0, timestamp |-> 0]

\* cluster is called with the embeddings of some bots
ClusterInit ==
    /\ cl_pc = "start"
    /\ cl_embeddings \in SUBSET BotPool
    /\ cl_min_size \in MinClusterSizes
    /\ cl_hdbscan \in BOOLEAN
    /\ cl_k = 0
    /\ cl_best_score = 0
    /\ cl_labels = <<>>
    /\ cl_result = NoClustering

n_samples == Len(bot_ids)

\* hdbscan_clusterer.py:22-24
ClusterEmpty ==
    /\ cl_pc = "start"
    /\ cl_embeddings = {}
    /\ cl_result' = empty_result
    /\ cl_pc' = "returned"
    /\ UNCHANGED <<cl_embeddings, cl_min_size, cl_hdbscan, cl_k, cl_best_score,
                   cl_labels, besideCluster>>

\* hdbscan_clusterer.py:30-32
SingleCluster ==
    /\ cl_pc = "start"
    /\ cl_embeddings # {}
    /\ n_samples < cl_min_size * 2
    /\ cl_result' = single_cluster(bot_ids)
    /\ cl_pc' = "returned"
    /\ UNCHANGED <<cl_embeddings, cl_min_size, cl_hdbscan, cl_k, cl_best_score,
                   cl_labels, besideCluster>>

\* hdbscan_clusterer.py:34-35
HdbscanCluster ==
    /\ cl_pc = "start"
    /\ n_samples >= cl_min_size * 2
    /\ cl_hdbscan
    /\ cl_labels' \in HdbscanLabels(n_samples, cl_min_size)
    /\ cl_pc' = "labelled"
    /\ UNCHANGED <<cl_embeddings, cl_min_size, cl_hdbscan, cl_k, cl_best_score,
                   cl_result, besideCluster>>

\* hdbscan_clusterer.py:36-37, 54-59  _kmeans_fallback is entered
KMeansFallback ==
    /\ cl_pc = "start"
    /\ n_samples >= cl_min_size * 2
    /\ ~cl_hdbscan
    /\ cl_best_score' = -1
    /\ cl_labels' = [i \in 1..n_samples |-> 0]
    /\ cl_k' = KMin
    /\ cl_pc' = "kmeans"
    /\ UNCHANGED <<cl_embeddings, cl_min_size, cl_hdbscan, cl_result, besideCluster>>

\* hdbscan_clusterer.py:60-67  one round of the loop over k
KMeansTry ==
    /\ cl_pc = "kmeans"
    /\ cl_k <= max_k(n_samples, cl_min_size)
    /\ \E labels \in KMeansLabels(n_samples, cl_k), score \in Scores :
           IF Cardinality(Range(labels)) > 1 /\ score > cl_best_score
           THEN cl_best_score' = score /\ cl_labels' = labels
           ELSE UNCHANGED <<cl_best_score, cl_labels>>
    /\ cl_k' = cl_k + 1
    /\ UNCHANGED <<cl_pc, cl_embeddings, cl_min_size, cl_hdbscan, cl_result,
                   besideCluster>>

\* hdbscan_clusterer.py:69  return best_labels
KMeansReturn ==
    /\ cl_pc = "kmeans"
    /\ cl_k > max_k(n_samples, cl_min_size)
    /\ cl_pc' = "labelled"
    /\ UNCHANGED <<cl_embeddings, cl_min_size, cl_hdbscan, cl_k, cl_best_score,
                   cl_labels, cl_result, besideCluster>>

\* hdbscan_clusterer.py:39, 113-118
BuildResult ==
    /\ cl_pc = "labelled"
    /\ \E sil_score \in IF scored(cl_labels) THEN Scores ELSE {0} :
           cl_result' = cluster_build_result(bot_ids, cl_labels, sil_score)
    /\ cl_pc' = "returned"
    /\ UNCHANGED <<cl_embeddings, cl_min_size, cl_hdbscan, cl_k, cl_best_score,
                   cl_labels, besideCluster>>

InitCluster == EngineInit /\ IdleExcept("cluster") /\ ClusterInit

NextCluster ==
    \/ ClusterEmpty
    \/ SingleCluster
    \/ HdbscanCluster
    \/ KMeansFallback
    \/ KMeansTry
    \/ KMeansReturn
    \/ BuildResult

SpecCluster == InitCluster /\ [][NextCluster]_vars

(***************************************************************************)
(* NicheDiscovery (competitive/niche_discovery.py)                         *)
(*                                                                         *)
(* Returns are counted in units of 0.000001 and opportunity scores in      *)
(* tenths (0.9 is 9).                                                      *)
(***************************************************************************)
\* niche_discovery.py:7-8
REGIMES ==
    <<"TRENDING_UP", "TRENDING_DOWN", "RANGING", "VOLATILE",
      "BREAKOUT_UP", "BREAKOUT_DOWN", "EVENT_DRIVEN", "QUIET">>

\* the bots a competitive:niches payload names
NicheBots == 1..4

\* the regimes the payload can carry performance data for
DataRegimes == {"TRENDING_UP", "VOLATILE"}

\* what lines 33-34 read for a bot with no entry for a regime
NoPerf == [avgReturn |-> 0, tradeCount |-> 0]

PerfOptions ==
    {NoPerf, [avgReturn |-> 1, tradeCount |-> 1], [avgReturn |-> -1, tradeCount |-> 2]}

\* the archetype lists of a payload: n archetypes with ids 0..n-1; a bot is
\* a member of at most one of them, an archetype may have no member
ArchetypeLists(n) ==
    {[j \in 1..n |->
        [id |-> j - 1,
         memberBotIds |-> SortedSeq({b \in NicheBots : of[b] = j})]] :
     of \in [NicheBots -> 0..n]}

\* the performance tables of a payload: data for one regime at most
PerfTables ==
    {[b \in NicheBots |->
        [r \in Range(REGIMES) |-> IF r = regime THEN opts[b] ELSE NoPerf]] :
     regime \in DataRegimes, opts \in [NicheBots -> PerfOptions]}

\* niche_discovery.py:30-37  the members with a positive tradeCount, in order
participants(members, perf, regime) ==
    SelectSeq(members, LAMBDA bot_id : perf[bot_id][regime].tradeCount > 0)

\* the participation rules tried before the single-bot rule
classify_participation_first(bot_count, total_trades, avg_performance, n_members) ==
    IF bot_count = 0 /\ total_trades = 0 THEN <<"unexplored", 8>>
    ELSE IF 5 * bot_count >= 3 * n_members /\ avg_performance[1] < 0
         THEN <<"overcrowded", 1>>
    ELSE IF 5 * bot_count >= 3 * n_members THEN <<"overcrowded", 3>>
    ELSE IF bot_count <= 1 /\ avg_performance[1] > 0 THEN <<"underexploited", 9>>
    ELSE IF avg_performance[1] > 0 THEN <<"underexploited", 7>>
    ELSE <<"balanced", 5>>

\* niche_discovery.py:44-61  <<classification, opportunity_score>>; on whole
\* numbers bot_count >= len(members) * 0.6 is 5 * bot_count >= 3 * len(members)
classify(bot_count, total_trades, avg_performance, n_members) ==
    IF bot_count = 0 /\ total_trades = 0 THEN <<"unexplored", 8>>
    ELSE IF bot_count <= 1 /\ avg_performance[1] > 0 THEN <<"underexploited", 9>>
    ELSE IF 5 * bot_count >= 3 * n_members /\ avg_performance[1] < 0
         THEN <<"overcrowded", 1>>
    ELSE IF 5 * bot_count >= 3 * n_members THEN <<"overcrowded", 3>>
    ELSE IF avg_performance[1] > 0 THEN <<"underexploited", 7>>
    ELSE <<"balanced", 5>>

\* niche_discovery.py:26-71  the cell of one archetype and one regime
cell(archetype, perf, regime) ==
    LET members == archetype.memberBotIds
        active == participants(members, perf, regime)
        returns == [i \in DOMAIN active |-> perf[active[i]][regime].avgReturn]
        trade_counts == [i \in DOMAIN active |-> perf[active[i]][regime].tradeCount]
        bot_count == Len(returns)
        total_trades == SumSeq(trade_counts)
        avg_performance == MeanOrZero(returns)
        class == classify(bot_count, total_trades, avg_performance, Len(members))
    IN  [botCount |-> bot_count,
         regime |-> regime,
         archetypeId |-> archetype.id,
         classification |-> class[1],
         avgPerformance |-> round6(avg_performance),
         totalTrades |-> total_trades,
         opportunityScore |-> class[2]]

RECURSIVE all_cells(_, _)
\* niche_discovery.py:22-71  the cells in the order they are appended
all_cells(archetypes, perf) ==
    IF archetypes = <<>> THEN <<>>
    ELSE [i \in DOMAIN REGIMES |-> cell(Head(archetypes), perf, REGIMES[i])]
             \o all_cells(Tail(archetypes), perf)

\* variant: the cells stay in the order they were appended
sort_by_score_as_appended(cs) == cs

RECURSIVE sort_by_score(_)
\* niche_discovery.py:74  cells.sort(key=opportunityScore, reverse=True): the
\* sort is stable, cells of equal score keep their order
sort_by_score(cs) ==
    IF cs = <<>> THEN <<>>
    ELSE LET top == CHOOSE x \in {cs[i].opportunityScore : i \in DOMAIN cs} :
                        \A i \in DOMAIN cs : cs[i].opportunityScore <= x
         IN  SelectSeq(cs, LAMBDA c : c.opportunityScore = top)
                 \o sort_by_score(SelectSeq(cs, LAMBDA c : c.opportunityScore # top))

CountOf(cs, classification) ==
    Cardinality({i \in DOMAIN cs : cs[i].classification = classification})

\* cells only for the pairs some member has traded in
analyze_observed_only(archetypes, perf) ==
    LET cs == SelectSeq(sort_by_score(all_cells(archetypes, perf)),
                        LAMBDA c : c.botCount > 0)
    IN  [timestamp |-> 0,
         cells |-> cs,
         totalCells |-> Len(cs),
         underexploited |-> CountOf(cs, "underexploited"),
         overcrowded |-> CountOf(cs, "overcrowded"),
         unexplored |-> CountOf(cs, "unexplored"),
         balanced |-> CountOf(cs, "balanced")]

\* niche_discovery.py:19-84  the result for a non-empty archetype list
analyze(archetypes, perf) ==
    LET cs == sort_by_score(all_cells(archetypes, perf))
    IN  [timestamp |-> 0,
         cells |-> cs,
         totalCells |-> Len(cs),
         underexploited |-> CountOf(cs, "underexploited"),
         overcrowded |-> CountOf(cs, "overcrowded"),
         unexplored |-> CountOf(cs, "unexplored"),
         balanced |-> CountOf(cs, "balanced")]

\* analyze is called with a payload
NicheInit ==
    /\ ni_pc = "start"
    /\ \E n \in 0..MaxArchetypes : ni_archetypes \in ArchetypeLists(n)
    /\ ni_perf \in PerfTables
    /\ ni_result = [cells |-> <<>>]

\* niche_discovery.py:16-17
AnalyzeEmpty ==
    /\ ni_pc = "start"
    /\ ni_archetypes = <<>>
    /\ ni_result' = [timestamp |-> 0, cells |-> <<>>]
    /\ ni_pc' = "returned"
    /\ UNCHANGED <<ni_archetypes, ni_perf, besideNiche>>

\* niche_discovery.py:19-84
Analyze ==
    /\ ni_pc = "start"
    /\ ni_archetypes # <<>>
    /\ ni_result' = analyze(ni_archetypes, ni_perf)
    /\ ni_pc' = "returned"
    /\ UNCHANGED <<ni_archetypes, ni_perf, besideNiche>>

InitNiche == EngineInit /\ IdleExcept("niche") /\ NicheInit

NextNiche ==
    \/ AnalyzeEmpty
    \/ Analyze

SpecNiche == InitNiche /\ [][NextNiche]_vars

(***************************************************************************)
(* The pipeline extract_features -> cluster -> niches on ScenarioBots bots *)
(* (engine.py:57-71, 89-91).  The caller passes the features of the first  *)
(* result to patterns:cluster and the archetypes of the second to          *)
(* competitive:niches.                                                     *)
(***************************************************************************)
\* feature_extraction.py:18-22  the bots that get a feature vector
extracted_bots(botTrades) == {b \in DOMAIN botTrades : botTrades[b] >= MinTrades}

\* umap_reducer.py:23, 53-55, 73-75  the bots that get an embedding
embedded_bots(features) == features

RECURSIVE BlockSizes(_, _, _)
\* the sizes of `parts` clusters of at least `least` points out of `total`
BlockSizes(total, parts, least) ==
    IF parts = 0 THEN {<<>>}
    ELSE UNION {{<<size>> \o rest : rest \in BlockSizes(total - size, parts - 1, least)} :
                size \in least..total - (parts - 1) * least}

RECURSIVE Blocks(_, _)
\* the labels label, label + 1, ... in blocks of the given sizes
Blocks(sizes, label) ==
    IF sizes = <<>> THEN <<>>
    ELSE [i \in 1..Head(sizes) |-> label] \o Blocks(Tail(sizes), label + 1)

\* HDBSCAN labellings of n points, one per choice of the cluster sizes: the
\* noise points come first, then the clusters in the order of their labels
HdbscanBlocks(n, min_cluster_size) ==
    UNION {{[i \in 1..n - SumSeq(sizes) |-> NoiseLabel] \o Blocks(sizes, 0) :
                sizes \in BlockSizes(n, parts, min_cluster_size)} :
           parts \in 0..n \div min_cluster_size}

\* labellings _kmeans_fallback can return for n points, one per number of
\* distinct labels: all zeros, or any k of lines 59-60 with labels dealt in turn
KMeansBlocks(n, min_cluster_size) ==
    {[i \in 1..n |-> 0]} \cup
    {[i \in 1..n |-> (i - 1) % distinct] :
        distinct \in 2..max_k(n, min_cluster_size)}

\* hdbscan_clusterer.py:18-39  the results cluster can return for a set of
\* embedded bots
cluster(embedded, min_cluster_size, has_hdbscan) ==
    LET ids == SortedSeq(embedded)
        n == Len(ids)
    IN  IF embedded = {} THEN {empty_result}
        ELSE IF n < min_cluster_size * 2 THEN {single_cluster(ids)}
        ELSE UNION {{cluster_build_result(ids, labels, sil_score) :
                        sil_score \in IF scored(labels) THEN Scores ELSE {0}} :
                    labels \in IF has_hdbscan THEN HdbscanBlocks(n, min_cluster_size)
                               ELSE KMeansBlocks(n, min_cluster_size)}

\* the trade histories of the scenario: every bot has the same number of
\* trades, MinTrades or more
PipelineInit ==
    /\ pl_pc = "extract"
    /\ \E count \in MinTrades..MinTrades + 1 :
           pl_botTrades = [b \in 1..ScenarioBots |-> count]
    /\ pl_hdbscan \in BOOLEAN
    /\ pl_features = {}
    /\ pl_clustering = NoClustering
    /\ pl_niches = [cells |-> <<>>]

\* engine.py:57-60
PipelineExtract ==
    /\ pl_pc = "extract"
    /\ pl_features' = extracted_bots(pl_botTrades)
    /\ pl_pc' = "cluster"
    /\ UNCHANGED <<pl_botTrades, pl_hdbscan, pl_clustering, pl_niches, besidePipeline>>

\* engine.py:62-71
PipelineCluster ==
    /\ pl_pc = "cluster"
    /\ pl_clustering' \in cluster(embedded_bots(pl_features), DefaultMinClusterSize,
                                  pl_hdbscan)
    /\ pl_pc' = "niches"
    /\ UNCHANGED <<pl_botTrades, pl_hdbscan, pl_features, pl_niches, besidePipeline>>

\* engine.py:89-91  no performance data is needed for the cell count
PipelineNiches ==
    /\ pl_pc = "niches"
    /\ pl_niches' =
           IF pl_clustering.archetypes = <<>> THEN [timestamp |-> 0, cells |-> <<>>]
           ELSE analyze(pl_clustering.archetypes,
                        [b \in 1..ScenarioBots |-> [r \in Range(REGIMES) |-> NoPerf]])
    /\ pl_pc' = "done"
    /\ UNCHANGED <<pl_botTrades, pl_hdbscan, pl_features, pl_clustering, besidePipeline>>

InitPipeline == EngineInit /\ IdleExcept("pipeline") /\ PipelineInit

NextPipeline ==
    \/ PipelineExtract
    \/ PipelineCluster
    \/ PipelineNiches

SpecPipeline == InitPipeline /\ [][NextPipeline]_vars

(***************************************************************************)
(* CrowdingDetector                                                        *)
(***************************************************************************)
\* the timestamp of the newest trade of a request, in milliseconds
CrowdNow == 2 * DefaultWindowMinutes * 60 * 1000

\* thresholdRatio values of a request; <<3, 5>> is the default 0.6
Thresholds == {<<0, 1>>, <<2, 5>>, <<1, 2>>, <<3, 5>>, <<4, 5>>}

\* what a request can carry besides the newest trades on the main symbol
Extras == {"repeat", "stale", "edge", "hold", "other"}

crowd_trade(bot, symbol, direction, timestamp) ==
    [botId |-> bot, symbol |-> symbol, direction |-> direction, timestamp |-> timestamp]

Opposite(direction) == IF direction = "buy" THEN "sell" ELSE "buy"

\* a recentTrades list: bots 1..k buy and bots k+1..n sell "AAA" at the newest
\* timestamp; "edge" adds a seller whose trade lies exactly on the window's
\* start, "hold" a bot with another direction, "repeat" an earlier in-window
\* trade of bot 1 in the opposite direction, "other" five sellers of "BBB",
\* "stale" a trade of bot 1 from before the window, listed last
RecentTrades(n, k, extras) ==
    LET window == DefaultWindowMinutes * 60 * 1000
        own(i) == IF i <= k THEN "buy" ELSE "sell"
    IN  (IF "edge" \in extras
            THEN <<crowd_trade(n + 1, "AAA", "sell", CrowdNow - window)>> ELSE <<>>)
        \o [i \in 1..n |-> crowd_trade(i, "AAA", own(i), CrowdNow)]
        \o (IF "hold" \in extras
            THEN <<crowd_trade(n + 2, "AAA", "hold", CrowdNow)>> ELSE <<>>)
        \o (IF "repeat" \in extras
            THEN <<crowd_trade(1, "AAA", Opposite(own(1)), CrowdNow - 1)>> ELSE <<>>)
        \o (IF "other" \in extras
            THEN [i \in 1..5 |-> crowd_trade(i, "BBB", "sell", CrowdNow)] ELSE <<>>)
        \o (IF "stale" \in extras
            THEN <<crowd_trade(1, "AAA", Opposite(own(1)), CrowdNow - window - 1)>>
            ELSE <<>>)

\* crowding.py:22  max(t.get('timestamp', 0) for t in recent_trades)
newest(trades) ==
    CHOOSE x \in {trades[i].timestamp : i \in DOMAIN trades} :
        \A i \in DOMAIN trades : trades[i].timestamp <= x

\* crowding.py:23-26
in_window(trades, window_minutes) ==
    LET window_start == newest(trades) - window_minutes * 60 * 1000
    IN  SelectSeq(trades, LAMBDA t : t.timestamp >= window_start)

RECURSIVE first_seen(_)
\* the keys of a dict in insertion order: the distinct values of a list in
\* the order of their first appearance
first_seen(s) ==
    IF s = <<>> THEN <<>>
    ELSE <<Head(s)>> \o first_seen(SelectSeq(Tail(s), LAMBDA x : x # Head(s)))

RECURSIVE sort_by_timestamp(_)
\* crowding.py:37  sorted(trades, key=timestamp): stable, ascending
sort_by_timestamp(ts) ==
    IF ts = <<>> THEN <<>>
    ELSE LET least == CHOOSE x \in {ts[i].timestamp : i \in DOMAIN ts} :
                          \A i \in DOMAIN ts : x <= ts[i].timestamp
         IN  SelectSeq(ts, LAMBDA t : t.timestamp = least)
                 \o sort_by_timestamp(SelectSeq(ts, LAMBDA t : t.timestamp # least))

\* one trade per bot, the first in timestamp order
latest_per_bot_keeps_earliest(trades) ==
    LET sorted == sort_by_timestamp(trades)
        bots == first_seen(Column(sorted, "botId"))
    IN  [i \in DOMAIN bots |->
            LET own == SelectSeq(sorted, LAMBDA t : t.botId = bots[i])
            IN  own[1]]

\* crowding.py:36-40  one trade per bot, the last in timestamp order
latest_per_bot(trades) ==
    LET sorted == sort_by_timestamp(trades)
        bots == first_seen(Column(sorted, "botId"))
    IN  [i \in DOMAIN bots |->
            LET own == SelectSeq(sorted, LAMBDA t : t.botId = bots[i])
            IN  own[Len(own)]]

RECURSIVE choose(_, _)
\* the binomial coefficient n over k
choose(n, k) == IF k = 0 THEN 1 ELSE (choose(n, k - 1) * (n - k + 1)) \div k

RECURSIVE binom_tail(_, _)
\* the number of the 2^n outcomes of n fair coin flips with k or more heads
binom_tail(k, n) == IF k > n THEN 0 ELSE choose(n, k) + binom_tail(k + 1, n)

\* the test run at the level 0.5
significant_at_one_in_two(k, n) == 2 * binom_tail(k, n) < 2 ^ n

\* crowding.py:57, 59  binomtest(k, n, 0.5, alternative='greater').pvalue is
\* binom_tail(k, n) / 2^n; it is below 0.05
significant(k, n) == 20 * binom_tail(k, n) < 2 ^ n

RECURSIVE long_division(_, _, _)
\* <<floor(num / den * 10^places), the remainder>>, digit by digit
long_division(num, den, places) ==
    IF places = 0 THEN <<num \div den, num % den>>
    ELSE LET prev == long_division(num, den, places - 1)
         IN  <<prev[1] * 10 + (prev[2] * 10) \div den, (prev[2] * 10) % den>>

\* round(num / den, places) in units of 10^-places, ties to the even digit
round_to(num, den, places) ==
    LET qr == long_division(num, den, places)
    IN  IF 2 * qr[2] < den THEN qr[1]
        ELSE IF 2 * qr[2] > den THEN qr[1] + 1
        ELSE IF qr[1] % 2 = 0 THEN qr[1] ELSE qr[1] + 1

\* every alert called "low"
severity_always_low(k, n_active) == "low"

\* crowding.py:63-70  the band of ratio = k / n_active
severity(k, n_active) ==
    IF 10 * k >= 9 * n_active THEN "critical"
    ELSE IF 10 * k >= 8 * n_active THEN "high"
    ELSE IF 10 * k >= 7 * n_active THEN "medium"
    ELSE "low"

\* the significance test left out
direction_alerts_untested(symbol, direction, bot_trades, threshold, now) ==
    LET bots == Column(SelectSeq(bot_trades, LAMBDA t : t.direction = direction), "botId")
        k == Len(bots)
        n_active == Len(bot_trades)
    IN  IF k * threshold[2] < threshold[1] * n_active THEN <<>>
        ELSE <<[symbol |-> symbol,
                direction |-> direction,
                timestamp |-> now,
                convergenceRatio |-> round_to(k, n_active, 4),
                botIds |-> bots,
                pValue |-> round_to(binom_tail(k, n_active), 2 ^ n_active, 6),
                severity |-> severity(k, n_active),
                windowMinutes |-> DefaultWindowMinutes,
                activeBots |-> n_active,
                totalBots |-> DefaultTotalBots]>>

\* crowding.py:50-83  the alerts of one symbol and one direction: none or one
direction_alerts(symbol, direction, bot_trades, threshold, now) ==
    LET bots == Column(SelectSeq(bot_trades, LAMBDA t : t.direction = direction), "botId")
        k == Len(bots)
        n_active == Len(bot_trades)
    IN  IF k * threshold[2] < threshold[1] * n_active THEN <<>>
        ELSE IF ~significant(k, n_active) THEN <<>>
        ELSE <<[symbol |-> symbol,
                direction |-> direction,
                timestamp |-> now,
                convergenceRatio |-> round_to(k, n_active, 4),
                botIds |-> bots,
                pValue |-> round_to(binom_tail(k, n_active), 2 ^ n_active, 6),
                severity |-> severity(k, n_active),
                windowMinutes |-> DefaultWindowMinutes,
                activeBots |-> n_active,
                totalBots |-> DefaultTotalBots]>>

\* crowding.py:34-83  the alerts of one symbol
symbol_alerts(symbol, windowed, threshold, now) ==
    LET trades == SelectSeq(windowed, LAMBDA t : t.symbol = symbol)
        bot_trades == latest_per_bot(trades)
    IN  IF Len(bot_trades) < MinActive THEN <<>>
        ELSE direction_alerts(symbol, "buy", bot_trades, threshold, now)
                 \o direction_alerts(symbol, "sell", bot_trades, threshold, now)

RECURSIVE all_alerts(_, _, _, _)
\* crowding.py:33-83  symbol_groups is walked in insertion order
all_alerts(symbols, windowed, threshold, now) ==
    IF symbols = <<>> THEN <<>>
    ELSE symbol_alerts(Head(symbols), windowed, threshold, now)
             \o all_alerts(Tail(symbols), windowed, threshold, now)

\* crowding.py:86
severity_order == <<"critical", "high", "medium", "low">>

\* the alerts left in the order the loops appended them
sort_by_severity_unsorted(alerts) == alerts

\* crowding.py:87  alerts.sort(key=severity_order): stable
sort_by_severity(alerts) ==
    LET of(band) == SelectSeq(alerts, LAMBDA a : a.severity = severity_order[band])
    IN  of(1) \o of(2) \o of(3) \o of(4)

\* crowding.py:22-89  the result for a non-empty trade list
detect(trades, threshold) ==
    LET now == newest(trades)
        windowed == in_window(trades, DefaultWindowMinutes)
        symbols == first_seen(Column(windowed, "symbol"))
        alerts == sort_by_severity(all_alerts(symbols, windowed, threshold, now))
    IN  [timestamp |-> now, alerts |-> alerts, alertCount |-> Len(alerts)]

\* detect is called with a payload
CrowdingInit ==
    /\ cr_pc = "start"
    /\ \E n \in 0..MaxActive : \E k \in 0..n : \E extras \in SUBSET Extras :
           cr_trades = RecentTrades(n, k, extras)
    /\ cr_threshold \in Thresholds
    /\ cr_result = no_alerts

\* crowding.py:19-20
DetectEmpty ==
    /\ cr_pc = "start"
    /\ cr_trades = <<>>
    /\ cr_result' = no_alerts
    /\ cr_pc' = "returned"
    /\ UNCHANGED <<cr_trades, cr_threshold, besideCrowding>>

\* crowding.py:22-89
Detect ==
    /\ cr_pc = "start"
    /\ cr_trades # <<>>
    /\ cr_result' = detect(cr_trades, cr_threshold)
    /\ cr_pc' = "returned"
    /\ UNCHANGED <<cr_trades, cr_threshold, besideCrowding>>

InitCrowding == EngineInit /\ IdleExcept("crowding") /\ CrowdingInit

NextCrowding ==
    \/ DetectEmpty
    \/ Detect

SpecCrowding == InitCrowding /\ [][NextCrowding]_vars

(***************************************************************************)
(* FeatureExtractor.extract called on its own                             *)
(***************************************************************************)
\* extract is called with a payload
ExtractInit ==
    /\ fx_pc = "start"
    /\ fx_botTrades \in BotTradeMaps
    /\ fx_result = [botCount |-> 0]

\* feature_extraction.py:13-24
Extract ==
    /\ fx_pc = "start"
    /\ fx_result' = extract(fx_botTrades)
    /\ fx_pc' = "returned"
    /\ UNCHANGED <<fx_botTrades, besideExtract>>

InitExtract == EngineInit /\ IdleExcept("extract") /\ ExtractInit

NextExtract == Extract

SpecExtract == InitExtract /\ [][NextExtract]_vars

(***************************************************************************)
(* UMAPReducer                                                             *)
(***************************************************************************)
\* the widths of the feature vectors of a reduce call
FeatureWidths == {1, 3, FeatureDimensions}

\* the features of a reduce call: every bot has a vector of the same width
FeatureMaps ==
    {[b \in bots |-> [j \in 1..width |-> b]] :
     bots \in SUBSET (1..MaxReduceBots), width \in FeatureWidths}

\* the columns a fitted projection can produce: the value of row i
ColumnKinds == {"flat", "ramp", "mirror"}

column_value(kind, i) ==
    CASE kind = "flat" -> 0
      [] kind = "ramp" -> i
      [] kind = "mirror" -> -i

\* fit_transform with n_components columns: an array of one row per sample,
\* each column of one of the kinds
fit_transform(rows, n_components) ==
    {[i \in 1..rows |-> [j \in 1..n_components |-> column_value(kinds[j], i)]] :
     kinds \in [1..n_components -> ColumnKinds]}

Min(a, b) == IF a < b THEN a ELSE b

\* umap_reducer.py:64  min(target_dim, matrix.shape[0], matrix.shape[1])
pca_components(rows, width) == Min(TargetDim, Min(rows, width))

\* the rows of the projection returned as they are
pad_nothing(embedded, target_dim) == embedded

\* umap_reducer.py:69-71  np.hstack([embedded, zeros]) up to target_dim
pad(embedded, target_dim) ==
    [i \in DOMAIN embedded |->
        embedded[i] \o [j \in 1..(target_dim - Len(embedded[i])) |-> 0]]

\* umap_reducer.py:53-55, 73-75  embeddings[bid] = embedded[i].tolist()
to_embeddings(ids, embedded) ==
    [b \in Range(ids) |-> embedded[CHOOSE i \in DOMAIN ids : ids[i] = b]]

\* umap_reducer.py:59-78  the results _pca_fallback can return
pca_fallback(ids, width) ==
    {[botIds |-> ids, dimensions |-> TargetDim,
      embeddings |-> to_embeddings(ids, pad(embedded, TargetDim)),
      method |-> "pca_fallback"] :
     embedded \in fit_transform(Len(ids), pca_components(Len(ids), width))}

\* umap_reducer.py:43-57  the results of the UMAP branch
umap_reduce(ids) ==
    {[botIds |-> ids, dimensions |-> TargetDim,
      embeddings |-> to_embeddings(ids, embedded)] :
     embedded \in fit_transform(Len(ids), TargetDim)}

\* the width of the feature matrix
width_of(features) == Len(features[CHOOSE b \in DOMAIN features : TRUE])

\* reduce is called with a payload
ReduceInit ==
    /\ rd_pc = "start"
    /\ rd_features \in FeatureMaps
    /\ rd_umap \in BOOLEAN
    /\ rd_result = no_embeddings

\* umap_reducer.py:20-21
ReduceEmpty ==
    /\ rd_pc = "start"
    /\ DOMAIN rd_features = {}
    /\ rd_result' = no_embeddings
    /\ rd_pc' = "returned"
    /\ UNCHANGED <<rd_features, rd_umap, besideReduce>>

\* umap_reducer.py:23-40  too few samples, or no umap module
PcaFallback ==
    /\ rd_pc = "start"
    /\ DOMAIN rd_features # {}
    /\ Cardinality(DOMAIN rd_features) < MinUmapSamples \/ ~rd_umap
    /\ rd_result' \in pca_fallback(SortedSeq(DOMAIN rd_features), width_of(rd_features))
    /\ rd_pc' = "returned"
    /\ UNCHANGED <<rd_features, rd_umap, besideReduce>>

\* umap_reducer.py:23-57
Umap ==
    /\ rd_pc = "start"
    /\ DOMAIN rd_features # {}
    /\ ~(Cardinality(DOMAIN rd_features) < MinUmapSamples)
    /\ rd_umap
    /\ rd_result' \in umap_reduce(SortedSeq(DOMAIN rd_features))
    /\ rd_pc' = "returned"
    /\ UNCHANGED <<rd_features, rd_umap, besideReduce>>

InitReduce == EngineInit /\ IdleExcept("reduce") /\ ReduceInit

NextReduce ==
    \/ ReduceEmpty
    \/ PcaFallback
    \/ Umap

SpecReduce == InitReduce /\ [][NextReduce]_vars

(***************************************************************************)
(* patterns:cluster: reduce, cluster and the traits of the archetypes      *)
(***************************************************************************)
\* hdbscan_clusterer.py:132-143
trait_names ==
    <<"high_frequency", "long_holding", "variable_holding",
      "buy_biased", "direction_flipper",
      "large_positions", "variable_sizing",
      "trend_up_affinity", "trend_down_affinity",
      "range_trader", "volatility_seeker",
      "rsi_contrarian", "bb_mean_reverter",
      "macd_follower", "trend_follower",
      "high_win_rate", "high_returns",
      "sharpe_optimizer", "low_drawdown",
      "high_confidence">>

\* the bots of a patterns:cluster request: enough for cluster not to take
\* the single-cluster branch at the default minClusterSize
TraitBots == 1..(2 * DefaultMinClusterSize)

\* feature vectors: the listed positions hold the listed values, the rest 0
Profiles ==
    [scalper |-> [j \in 1..FeatureDimensions |->
                     CASE j = 1 -> 9 [] j = 5 -> 2 [] j = 20 -> 1 [] OTHER -> 0],
     holder |-> [j \in 1..FeatureDimensions |->
                    CASE j = 2 -> 9 [] j = 16 -> 3 [] j = 17 -> 1 [] OTHER -> 0],
     confident |-> [j \in 1..FeatureDimensions |->
                       CASE j = 20 -> 9 [] j = 12 -> 50 [] j = 3 -> 1 [] OTHER -> 0]]

\* the features of a request: one profile for the first half of the bots,
\* one for the second half
TraitFeatureMaps ==
    {[b \in TraitBots |->
        Profiles[IF b <= DefaultMinClusterSize THEN first ELSE second]] :
     first \in DOMAIN Profiles, second \in DOMAIN Profiles}

RECURSIVE argsort(_, _)
\* np.argsort of the values at the positions S: ascending, equal values in
\* the order of their positions
argsort(values, S) ==
    IF S = {} THEN <<>>
    ELSE LET least == CHOOSE i \in S : \A j \in S :
                          \/ FLess(values[i], values[j])
                          \/ values[i] = values[j] /\ i <= j
         IN  <<least>> \o argsort(values, S \ {least})

\* the last (at most) 3 entries of a list, last first: xs[-3:][::-1]
last_three_reversed(xs) ==
    [k \in 1..Min(3, Len(xs)) |-> xs[Len(xs) + 1 - k]]

\* hdbscan_clusterer.py:145-150  the names of the top 3 of the absolute means
top_traits(abs_means) ==
    LET top_indices == last_three_reversed(argsort(abs_means, DOMAIN abs_means))
        named == SelectSeq(top_indices, LAMBDA idx : idx - 1 < Len(trait_names))
    IN  [k \in DOMAIN named |-> trait_names[named[k]]]

\* hdbscan_clusterer.py:128-150  positions count from 1 here; the means are
\* computed once
infer_traits(member_matrix) ==
    CHOOSE traits \in
        {top_traits(abs_means) :
            abs_means \in {[j \in DOMAIN member_matrix[1] |->
                               AbsFrac(FMean(Numbers(Column(member_matrix, j))))]}} : TRUE

\* hdbscan_clusterer.py:75-92  the archetypes of _build_result with their
\* members and traits; matrix holds the rows of the embeddings
archetypes_with_traits(ids, matrix, labels) ==
    LET unique_labels == SortedSeq(Range(labels) \ {NoiseLabel})
    IN  [k \in DOMAIN unique_labels |->
            LET member_indices ==
                    SortedSeq({i \in DOMAIN labels : labels[i] = unique_labels[k]})
            IN  [id |-> unique_labels[k],
                 memberBotIds |-> [i \in DOMAIN member_indices |-> ids[member_indices[i]]],
                 dominantTraits |->
                     infer_traits([i \in DOMAIN member_indices |->
                                      matrix[member_indices[i]]])]]

\* a patterns:cluster request arrives
TraitsInit ==
    /\ tr_pc = "start"
    /\ tr_features \in TraitFeatureMaps
    /\ tr_embeddings = <<>>
    /\ tr_archetypes = <<>>

\* engine.py:63-67  embeddings = reducer.reduce(payload)
TraitsReduce ==
    /\ tr_pc = "start"
    /\ LET ids == SortedSeq(DOMAIN tr_features)
       IN  \E r \in umap_reduce(ids) \cup pca_fallback(ids, width_of(tr_features)) :
               tr_embeddings' = r.embeddings
    /\ tr_pc' = "reduced"
    /\ UNCHANGED <<tr_features, tr_archetypes, besideTraits>>

\* engine.py:68-71  clusterer.cluster(embeddings, min_cluster_size)
TraitsCluster ==
    /\ tr_pc = "reduced"
    /\ LET ids == SortedSeq(DOMAIN tr_embeddings)
           matrix == [i \in DOMAIN ids |-> tr_embeddings[ids[i]]]
       IN  \E labels \in HdbscanBlocks(Len(ids), DefaultMinClusterSize)
                             \cup KMeansBlocks(Len(ids), DefaultMinClusterSize) :
               tr_archetypes' = archetypes_with_traits(ids, matrix, labels)
    /\ tr_pc' = "returned"
    /\ UNCHANGED <<tr_features, tr_embeddings, besideTraits>>

InitTraits == EngineInit /\ IdleExcept("traits") /\ TraitsInit

NextTraits ==
    \/ TraitsReduce
    \/ TraitsCluster

SpecTraits == InitTraits /\ [][NextTraits]_vars

(***************************************************************************)
(* Request Dispatcher                                                      *)
(***************************************************************************)
\* the last line was a request object and resp is its response
Handled == last = "request"

HandledType(type) == Handled /\ req.type = type

\* C1: for every sequence of input lines the dispatcher loop never terminates
\* abnormally because of a single bad request: a request whose handling
\* fails is answered with success=false and the loop goes on reading.
C1_NeverCrashes == pc # "crashed"

\* C2: the output carries exactly one response per request object read, the
\* k-th response is written in the step that reads the k-th request (before
\* the next line is read), and it carries that request's id.
C2_OneResponsePerRequest ==
    /\ responses = requests
    /\ resp.id = req.id
    /\ Handled => resp.type[1] = req.type

C2_Witness ==
    /\ requests >= 2
    /\ Handled
    /\ resp.id = "r1"
    /\ ~resp.success

(***************************************************************************)
(* Per-Bot Predictor                                                       *)
(***************************************************************************)
\* the last request was a well-formed competitive:predict for bot b
PredictFor(b) ==
    /\ HandledType("competitive:predict")
    /\ req.payload.kind = "predict"
    /\ req.payload.botId = b

\* the last request was a well-formed competitive:predict_all
PredictAllHandled ==
    /\ HandledType("competitive:predict_all")
    /\ req.payload.kind = "predict_all"

\* the bots a predict_all payload lists
Listed(payload) == {b \in Bots : payload.predictions[b] # 0}

\* the response is a prediction for b answered by estimator m
AnsweredBy(result, m) == result.predicted /\ result.by = m

\* C3 as stated: after a successful train for b, every later predict for b
\* returns predicted:true, answered by the model of the most recent
\* successful train for b.
C3_EveryLaterPredictAnswers ==
    \A b \in Bots :
        PredictFor(b) /\ last_fit[b] # NoModel
            => resp.success /\ AnsweredBy(resp.payload, last_fit[b])

\* the cache holds, for every bot, exactly the estimator of its most recent
\* successful train
CacheIsLatestFit ==
    /\ DOMAIN models = {b \in Bots : last_fit[b] # NoModel}
    /\ \A b \in DOMAIN models : models[b] = last_fit[b]

\* a step removes no model slot, and changes the slot of a bot only while
\* answering trained:true to a train request for that bot
SlotsOnlyReplaced ==
    \A b \in DOMAIN models :
        /\ b \in DOMAIN models'
        /\ models'[b] # models[b]
              => /\ ReportsTrained(resp')
                 /\ req'.type = "competitive:train"
                 /\ req'.payload.botId = b

\* predict and predict_all entries for a trained bot, asked with a feature
\* row of the width the bot's latest estimator was fitted on
AcceptedPredictAnswers ==
    /\ \A b \in Bots :
          PredictFor(b) /\ last_fit[b] # NoModel /\ req.payload.dim = last_fit[b].dim
              => resp.success /\ AnsweredBy(resp.payload, last_fit[b])
    /\ PredictAllHandled
       /\ (\A b \in Listed(req.payload) :
              last_fit[b] # NoModel => req.payload.predictions[b] = last_fit[b].dim)
          => /\ resp.success
             /\ \A b \in Listed(req.payload) :
                   last_fit[b] # NoModel
                       => AnsweredBy(resp.payload.predictions[b], last_fit[b])

\* C3 (amended): after a successful train for b, every later predict (or
\* predict_all entry) for b whose feature row has the width the model was
\* fitted on returns predicted:true, answered by the model of the most recent
\* successful train for b; a model slot is never removed, only replaced by a
\* later successful train of the same bot.
C3_AcceptedPredictAnswersLatestFit ==
    /\ [](CacheIsLatestFit /\ AcceptedPredictAnswers)
    /\ [][SlotsOnlyReplaced]_vars

C3_Witness ==
    /\ PredictFor("b1")
    /\ requests >= 3
    /\ last_fit["b1"] # NoModel
    /\ resp.success
    /\ AnsweredBy(resp.payload, last_fit["b1"])
    /\ last_fit["b1"].dim = 2

\* the last request was a well-formed competitive:train
TrainHandled ==
    /\ HandledType("competitive:train")
    /\ req.payload.kind = "train"

\* the response is a structured trained:false result with the given reason
Rejected(reason) ==
    /\ resp.success
    /\ ~resp.payload.trained
    /\ resp.payload.reason = reason

\* the step handled a request object (its response is resp')
Handles == requests' = requests + 1

CacheUnchanged == models' = models /\ train_counts' = train_counts

\* C6 as stated: training with only buy labels returns trained:false with
\* reason "single_class", whatever the number of samples.
C6_OnlyBuyIsSingleClass ==
    TrainHandled /\ req.payload.classes = {0} => Rejected("single_class")

OnlyBuyRejected ==
    TrainHandled /\ req.payload.classes = {0}
        => IF req.payload.nFeat >= MinSamples /\ req.payload.nLab >= MinSamples
           THEN Rejected("single_class")
           ELSE Rejected("insufficient_data")

OnlyBuyKeepsCache ==
    Handles /\ TrainHandled' /\ req'.payload.classes = {0} => CacheUnchanged

\* C6 (amended): training with only buy labels returns trained:false with
\* reason "single_class" when at least 10 feature rows and 10 labels are
\* given, and with reason "insufficient_data" when fewer are; in both cases it
\* does not raise and creates or replaces no model.
C6_OnlyBuyRejectedBySizeThenClass ==
    /\ []OnlyBuyRejected
    /\ [][OnlyBuyKeepsCache]_vars

C6_Witness ==
    /\ TrainHandled
    /\ req.payload.classes = {0}
    /\ req.payload.nFeat >= MinSamples
    /\ Rejected("single_class")
    /\ req.payload.botId \in DOMAIN models

FewSamplesRejected ==
    TrainHandled /\ req.payload.nFeat < MinSamples => Rejected("insufficient_data")

FewSamplesKeepCache ==
    Handles /\ TrainHandled' /\ req'.payload.nFeat < MinSamples => CacheUnchanged

\* C7: training with fewer than 10 samples returns trained:false with reason
\* "insufficient_data" as a structured result, not an exception, and leaves
\* the model cache unchanged, so an earlier model of the bot stays in place.
C7_FewSamplesInsufficientData ==
    /\ []FewSamplesRejected
    /\ [][FewSamplesKeepCache]_vars

C7_Witness ==
    /\ TrainHandled
    /\ req.payload.nFeat < MinSamples
    /\ Rejected("insufficient_data")
    /\ req.payload.botId \in DOMAIN models
    /\ models[req.payload.botId] = last_fit[req.payload.botId]

\* the structured result of predict for a bot without a model
NoModelResult(result) == ~result.predicted /\ result.reason = "no_model"

UntrainedPredict ==
    \A b \in Bots :
        PredictFor(b) /\ b \notin DOMAIN models
            => resp.success /\ NoModelResult(resp.payload)

\* the batch result: one entry per listed bot, the entry predict gives
BatchResult ==
    /\ resp.success
    /\ DOMAIN resp.payload.predictions = Listed(req.payload)
    /\ resp.payload.botCount = Cardinality(Listed(req.payload))
    /\ \A b \in Listed(req.payload) :
          /\ resp.payload.predictions[b] =
                predict([kind |-> "predict", botId |-> b,
                         dim |-> req.payload.predictions[b]],
                        models, train_counts).result
          /\ b \notin DOMAIN models => NoModelResult(resp.payload.predictions[b])
          /\ b \in DOMAIN models => resp.payload.predictions[b].predicted

SomeRowRejected ==
    \E b \in Listed(req.payload) \cap DOMAIN models :
        models[b].dim # req.payload.predictions[b]

BatchAnswersUnlessRowRejected ==
    PredictAllHandled
        => IF SomeRowRejected THEN ~resp.success /\ resp.payload = NullPayload
           ELSE BatchResult

PredictKeepsCache ==
    Handles /\ req'.type \in {"competitive:predict", "competitive:predict_all"}
        => CacheUnchanged

ReportsRejection(result) ==
    \/ result.kind = "train" /\ ~result.trained
    \/ result.kind = "predict" /\ ~result.predicted

\* the error category of the last response ("none" when it reports no error)
Category ==
    IF ~Handled THEN "none"
    ELSE IF req.type \notin KnownTypes THEN "unknown_request"
    ELSE IF ~resp.success THEN "unexpected"
    ELSE IF ReportsRejection(resp.payload) THEN "validation"
    ELSE "none"

\* what a caller sees without reading the message: the success flag and
\* whether the envelope carries an error
Envelope == <<resp.success, resp.error # <<>>>>

\* C9: the three error categories are pairwise distinguishable from the
\* response envelope's success flag and error field alone: two responses of
\* different categories never show the same flag and error presence.
C9_CategoriesDistinguishable ==
    [][Category # "none" /\ Category' # "none" /\ Category # Category'
          => Envelope # Envelope']_vars

\* the response to an unrecognised type
UnknownAnswered ==
    Handled /\ req.type \notin KnownTypes
        => /\ resp.id = req.id
           /\ resp.type = <<req.type, "error">>
           /\ ~resp.success
           /\ resp.error # <<>>
           /\ resp.payload = NullPayload

UnknownKeepsState ==
    Handles /\ req'.type \notin KnownTypes
        => /\ modules' = modules
           /\ CacheUnchanged
           /\ responses' = responses + 1
           /\ pc' = "running"

NextAfterUnknownHandled ==
    Handled /\ req.type \notin KnownTypes /\ Handles /\ req'.type = "health:ping"
        => resp'.success /\ resp'.id = req'.id

\* C10: a request of an unrecognised type gets exactly one response with
\* type "<type>:error", success=false and payload null; it constructs no
\* component, leaves the model cache unchanged, and the next request is
\* handled normally.
C10_UnknownTypeAnswered ==
    /\ []UnknownAnswered
    /\ [][UnknownKeepsState /\ NextAfterUnknownHandled]_vars

C10_Witness ==
    /\ Handled
    /\ req.type = "bogus:type"
    /\ ~resp.success
    /\ DOMAIN models # {}
    /\ "xgboost" \in modules

(***************************************************************************)
(* Shapley Attribution                                                     *)
(***************************************************************************)
\* the sum of the four reported contributions of an attribution record
ContributionSum(a) ==
    a.regimeContribution + a.timingContribution + a.directionContribution
        + a.sizingContribution

\* C4: for every trade of a shapley:batch request the four reported
\* contributions sum to the trade's pnlPercentage within 1e-9, with and
\* without comparable trades.  The reported numbers are whole multiples of
\* 0.000001, so two of them that differ at all differ by far more than 1e-9.
C4_ContributionsSumToReturn ==
    \A i \in DOMAIN sh_results :
        ContributionSum(sh_results[i]) = sh_results[i].totalReturn

(***************************************************************************)
(* Archetype Clustering                                                    *)
(***************************************************************************)
\* cluster has returned cl_result for the bots of cl_embeddings
Clustered == cl_pc = "returned"

\* the archetypes (by position in the result) that list a bot as a member
ArchetypesOf(bot) ==
    {j \in DOMAIN cl_result.archetypes :
        \E m \in DOMAIN cl_result.archetypes[j].memberBotIds :
            cl_result.archetypes[j].memberBotIds[m] = bot}

InNoise(bot) == \E i \in DOMAIN cl_result.noise : cl_result.noise[i] = bot

\* C5: in every clustering result the archetype member lists are non-empty
\* and pairwise disjoint, every embedded bot has exactly one assignment, a bot
\* is listed in noise iff its assignment has archetypeId -1 and then it is a
\* member of no archetype, and every other bot is a member of exactly the one
\* archetype named by its assignment.
C5_ArchetypesPartitionBots ==
    Clustered =>
        /\ \A j \in DOMAIN cl_result.archetypes :
               cl_result.archetypes[j].memberBotIds # <<>>
        /\ \A bot \in BotPool : Cardinality(ArchetypesOf(bot)) <= 1
        /\ DOMAIN cl_result.assignments = cl_embeddings
        /\ \A bot \in cl_embeddings :
               /\ InNoise(bot) <=> cl_result.assignments[bot].archetypeId = NoiseLabel
               /\ InNoise(bot) => ArchetypesOf(bot) = {}
               /\ ~InNoise(bot) =>
                      \E j \in DOMAIN cl_result.archetypes :
                          /\ ArchetypesOf(bot) = {j}
                          /\ cl_result.archetypes[j].id =
                                 cl_result.assignments[bot].archetypeId

C5_Witness ==
    /\ Clustered
    /\ Len(cl_result.archetypes) >= 2
    /\ cl_result.noise # <<>>
    /\ Cardinality(cl_embeddings) = MaxBots

(***************************************************************************)
(* Response Envelope                                                       *)
(***************************************************************************)
\* type "<type>:result", success=true, a payload, no error
ResultShape ==
    /\ resp.type = <<req.type, "result">>
    /\ resp.success
    /\ resp.payload # NullPayload
    /\ resp.error = <<>>

\* type "<type>:error", success=false, payload null, an error string
ErrorShape ==
    /\ resp.type = <<req.type, "error">>
    /\ ~resp.success
    /\ resp.payload = NullPayload
    /\ resp.error # <<>>

\* C11: every response is of exactly one of two shapes, "<type>:result" with
\* success=true and a non-null payload or "<type>:error" with success=false,
\* payload null and an error string; it carries id and processingTimeMs, and
\* no response mixes the two shapes.
C11_ResponseHasOneShape ==
    Handled =>
        /\ ResultShape \/ ErrorShape
        /\ ~(ResultShape /\ ErrorShape)
        /\ {"id", "processingTimeMs"} \subseteq DOMAIN resp
        /\ resp.processingTimeMs \in Nat

C11_Witness ==
    /\ Handled
    /\ ErrorShape
    /\ req.type = "competitive:predict"
    /\ requests > 1

(***************************************************************************)
(* End-to-end pipeline                                                     *)
(***************************************************************************)
\* the pipeline has run through its three stages
PipelineDone == pl_pc = "done"

\* C12: for 21 bots with 3 or more trades each the pipeline extract_features
\* -> cluster -> niches produces between 1 and 7 archetypes and exactly
\* archetypeCount x 8 niche cells, whichever clustering method is used and
\* whatever labels it returns.
C12_PipelineArchetypesAndCells ==
    PipelineDone =>
        /\ Len(pl_clustering.archetypes) \in 1..7
        /\ Len(pl_niches.cells) = Len(pl_clustering.archetypes) * 8

(***************************************************************************)
(* Niche discovery                                                         *)
(***************************************************************************)
\* analyze has returned for a non-empty archetype list
Analyzed == ni_pc = "returned" /\ ni_archetypes # <<>>

Classifications == {"unexplored", "underexploited", "overcrowded", "balanced"}

\* C14: for a non-empty archetype list analyze emits exactly one cell per
\* (archetype, regime) pair over all 8 regimes, pairs without performance
\* data included; each cell carries one of the four classifications and the
\* four summary counts sum to totalCells.
C14_OneCellPerArchetypeAndRegime ==
    Analyzed =>
        LET cs == ni_result.cells
        IN  /\ Len(cs) = Len(ni_archetypes) * 8
            /\ ni_result.totalCells = Len(cs)
            /\ \A a \in DOMAIN ni_archetypes : \A r \in DOMAIN REGIMES :
                   Cardinality({i \in DOMAIN cs :
                                   /\ cs[i].archetypeId = ni_archetypes[a].id
                                   /\ cs[i].regime = REGIMES[r]}) = 1
            /\ \A i \in DOMAIN cs : cs[i].classification \in Classifications
            /\ ni_result.unexplored + ni_result.underexploited
                   + ni_result.overcrowded + ni_result.balanced
                   = ni_result.totalCells

C14_Witness ==
    /\ Analyzed
    /\ Len(ni_archetypes) = 2
    /\ ni_result.totalCells = 16
    /\ ni_result.unexplored >= 14
    /\ ni_result.overcrowded >= 1

\* the members of an archetype that participate in a regime: those whose
\* tradeCount in the regime is positive
Participating(archetype, regime) ==
    {b \in Range(archetype.memberBotIds) : ni_perf[b][regime].tradeCount > 0}

RECURSIVE ReturnSum(_, _)
ReturnSum(bots, regime) ==
    IF bots = {} THEN 0
    ELSE LET b == CHOOSE x \in bots : TRUE
         IN  ni_perf[b][regime].avgReturn + ReturnSum(bots \ {b}, regime)

RECURSIVE TradeSum(_, _)
TradeSum(bots, regime) ==
    IF bots = {} THEN 0
    ELSE LET b == CHOOSE x \in bots : TRUE
         IN  ni_perf[b][regime].tradeCount + TradeSum(bots \ {b}, regime)

\* the first of the six rules that matches, as <<classification, tenths>>;
\* the mean return has the sign of the sum of the participants' returns
FirstRule(archetype, regime) ==
    LET bots == Participating(archetype, regime)
        n == Cardinality(bots)
        total == ReturnSum(bots, regime)
        crowded == 5 * n >= 3 * Len(archetype.memberBotIds)
    IN  CASE n = 0 /\ TradeSum(bots, regime) = 0 -> <<"unexplored", 8>>
          [] OTHER ->
        CASE n <= 1 /\ total > 0 -> <<"underexploited", 9>>
          [] OTHER ->
        CASE crowded /\ total < 0 -> <<"overcrowded", 1>>
          [] OTHER ->
        CASE crowded -> <<"overcrowded", 3>>
          [] OTHER ->
        CASE total > 0 -> <<"underexploited", 7>>
          [] OTHER -> <<"balanced", 5>>

\* C18: each cell's classification and opportunity score are those of the
\* first matching rule in the order unexplored 0.8, single-bot
\* underexploited 0.9, overcrowded 0.1, overcrowded 0.3, underexploited
\* 0.7, balanced 0.5, a bot participating iff its tradeCount is positive.
C18_FirstMatchingRule ==
    Analyzed =>
        \A i \in DOMAIN ni_result.cells :
            LET c == ni_result.cells[i]
                rule == FirstRule(ni_archetypes[c.archetypeId + 1], c.regime)
            IN  c.classification = rule[1] /\ c.opportunityScore = rule[2]

C18_Witness ==
    /\ Analyzed
    /\ \E i \in DOMAIN ni_result.cells :
           LET c == ni_result.cells[i]
           IN  /\ c.classification = "underexploited"
               /\ c.opportunityScore = 7
               /\ c.botCount = 2
               /\ Len(ni_archetypes[c.archetypeId + 1].memberBotIds) = 4
    /\ ni_result.unexplored > 0

(***************************************************************************)
(* Crowding detection                                                      *)
(***************************************************************************)
\* detect has returned for a non-empty trade list
Detected == cr_pc = "returned" /\ cr_trades # <<>>

\* the positions of the trades on a symbol that lie in the window
Windowed(symbol) ==
    LET window_start == newest(cr_trades) - DefaultWindowMinutes * 60000
    IN  {i \in DOMAIN cr_trades :
            /\ cr_trades[i].symbol = symbol
            /\ cr_trades[i].timestamp >= window_start}

\* the bots active on a symbol: those with a trade on it in the window
ActiveOn(symbol) == {cr_trades[i].botId : i \in Windowed(symbol)}

\* position i holds the latest trade of its bot among the positions w
LatestIn(w, i) ==
    \A j \in w :
        cr_trades[j].botId = cr_trades[i].botId =>
            \/ cr_trades[j].timestamp < cr_trades[i].timestamp
            \/ cr_trades[j].timestamp = cr_trades[i].timestamp /\ j <= i

\* the active bots whose latest trade on a symbol takes a direction
Takers(symbol, direction) ==
    LET w == Windowed(symbol)
    IN  {cr_trades[i].botId :
            i \in {j \in w : cr_trades[j].direction = direction /\ LatestIn(w, j)}}

\* the positions of the alerts for a symbol and a direction
AlertsFor(symbol, direction) ==
    {i \in DOMAIN cr_result.alerts :
        /\ cr_result.alerts[i].symbol = symbol
        /\ cr_result.alerts[i].direction = direction}

\* C13: when 21 bots are active on a symbol in the window, exactly 15 of
\* them taking "buy" and the other 6 "sell", and thresholdRatio is the
\* default 0.6, detect emits a buy alert for the symbol with
\* convergenceRatio 15/21 (0.7143), severity "medium" and a p-value below
\* 0.05.
C13_FifteenOfTwentyOneBuy ==
    \A symbol \in Symbols :
        /\ Detected
        /\ cr_threshold = <<3, 5>>
        /\ Cardinality(ActiveOn(symbol)) = 21
        /\ Cardinality(Takers(symbol, "buy")) = 15
        /\ Cardinality(Takers(symbol, "sell")) = 6
        => \E i \in AlertsFor(symbol, "buy") :
               LET a == cr_result.alerts[i]
               IN  /\ a.convergenceRatio = 7143
                   /\ a.severity = "medium"
                   /\ a.pValue < 50000
                   /\ a.activeBots = 21
                   /\ Len(a.botIds) = 15

C13_Witness ==
    /\ Detected
    /\ cr_threshold = <<3, 5>>
    /\ Cardinality(ActiveOn("AAA")) = 21
    /\ Cardinality(Takers("AAA", "buy")) = 15
    /\ Cardinality(Takers("AAA", "sell")) = 6
    /\ Len(cr_trades) > 21
    /\ AlertsFor("AAA", "buy") # {}

\* the three conditions of an alert
Crowded(symbol, direction) ==
    LET n == Cardinality(ActiveOn(symbol))
        k == Cardinality(Takers(symbol, direction))
    IN  /\ n >= 3
        /\ k * cr_threshold[2] >= cr_threshold[1] * n
        /\ 20 * binom_tail(k, n) < 2 ^ n

\* C20: an alert for a (symbol, direction) pair is emitted iff the symbol
\* has at least 3 active bots in the window, the share k/activeBots of the
\* bots taking the direction is at least thresholdRatio and the one-sided
\* binomial tail P(X >= k | n = activeBots, p = 1/2) is below 0.05; exactly
\* one alert per such pair and none otherwise.
C20_AlertIffCrowded ==
    Detected =>
        /\ \A symbol \in Symbols : \A direction \in Directions :
               Cardinality(AlertsFor(symbol, direction))
                   = IF Crowded(symbol, direction) THEN 1 ELSE 0
        /\ \A i \in DOMAIN cr_result.alerts :
               /\ cr_result.alerts[i].symbol \in Symbols
               /\ cr_result.alerts[i].direction \in Directions

C20_Witness ==
    /\ Detected
    /\ Crowded("BBB", "sell")
    /\ AlertsFor("BBB", "sell") # {}
    /\ Cardinality(ActiveOn("AAA")) >= 3
    /\ 5 * Cardinality(Takers("AAA", "buy")) >= 4 * Cardinality(ActiveOn("AAA"))
    /\ ~Crowded("AAA", "buy")
    /\ AlertsFor("AAA", "buy") = {}

(***************************************************************************)
(* Feature extraction                                                      *)
(***************************************************************************)
\* extract has returned
Extracted == fx_pc = "returned"

\* C16: extract returns a feature vector for exactly the bots of botTrades
\* with 3 or more trades, botCount is the number of returned bots, and
\* every returned vector has exactly 20 entries, none of them NaN or
\* Infinity.
C16_TwentyFiniteFeatures ==
    Extracted =>
        /\ DOMAIN fx_result.features
               = {b \in DOMAIN fx_botTrades : Len(fx_botTrades[b]) >= 3}
        /\ fx_result.botCount = Cardinality(DOMAIN fx_result.features)
        /\ \A b \in DOMAIN fx_result.features :
               /\ Len(fx_result.features[b]) = 20
               /\ \A i \in 1..20 : IsFinite(fx_result.features[b][i])

\* the part of C16 that concerns the bots and the length of the vectors
C16_BotsAndLength ==
    Extracted =>
        /\ DOMAIN fx_result.features
               = {b \in DOMAIN fx_botTrades : Len(fx_botTrades[b]) >= 3}
        /\ fx_result.botCount = Cardinality(DOMAIN fx_result.features)
        /\ \A b \in DOMAIN fx_result.features : Len(fx_result.features[b]) = 20

\* a step that handles a patterns:extract_features request
HandlesExtract ==
    /\ lines' = lines + 1
    /\ last' = "request"
    /\ req'.type = "patterns:extract_features"

Reduced == rd_pc = "returned" /\ DOMAIN rd_features # {}

UsedPca == "method" \in DOMAIN rd_result

\* C15: for every non-empty features mapping reduce returns an embedding
\* for exactly the input botIds, each of length exactly 5, whether the PCA
\* fallback (fewer than 4 bots or UMAP unavailable) or UMAP is used; under
\* PCA the components beyond min(5, botCount, feature columns) are zero
\* padding.
C15_EmbeddingsHaveFiveDimensions ==
    Reduced =>
        LET bots == DOMAIN rd_features
            real == Min(5, Min(Cardinality(bots), width_of(rd_features)))
        IN  /\ DOMAIN rd_result.embeddings = bots
            /\ Range(rd_result.botIds) = bots
            /\ Len(rd_result.botIds) = Cardinality(bots)
            /\ rd_result.dimensions = 5
            /\ \A b \in bots : Len(rd_result.embeddings[b]) = 5
            /\ UsedPca <=> (Cardinality(bots) < 4 \/ ~rd_umap)
            /\ UsedPca =>
                   \A b \in bots : \A j \in (real + 1)..5 :
                       rd_result.embeddings[b][j] = 0

C15_Witness ==
    /\ Reduced
    /\ UsedPca
    /\ rd_umap
    /\ Cardinality(DOMAIN rd_features) = 2
    /\ width_of(rd_features) = 20
    /\ \E b \in DOMAIN rd_features :
           /\ rd_result.embeddings[b][2] # 0
           /\ rd_result.embeddings[b][3] = 0

(***************************************************************************)
(* Dominant traits                                                         *)
(***************************************************************************)
\* the absolute value of the sum, over the members of an archetype, of
\* dimension d of the 20-dimensional features; the absolute means are these
\* sums divided by the number of members
FeatureWeight(archetype, d) ==
    LET members == archetype.memberBotIds
    IN  AbsInt(SumSeq([i \in DOMAIN members |-> tr_features[members[i]][d]]))

\* the dimensions whose names an archetype reports
Reported(archetype) ==
    {d \in 1..20 : trait_names[d] \in Range(archetype.dominantTraits)}

\* C19: each archetype's dominantTraits are the names of the (up to 3)
\* dimensions of the original 20-dimensional feature space whose mean over
\* the archetype's members has the largest absolute value.
C19_TraitsOfFeatureSpace ==
    tr_pc = "returned" =>
        \A k \in DOMAIN tr_archetypes :
            LET a == tr_archetypes[k]
            IN  /\ Len(a.dominantTraits) = 3
                /\ Cardinality(Reported(a)) = 3
                /\ \A d \in Reported(a) : \A e \in (1..20) \ Reported(a) :
                       FeatureWeight(a, e) <= FeatureWeight(a, d)

\* the traits reported are names of the first five table entries only
C19_TraitsOfEmbeddingColumns ==
    tr_pc = "returned" =>
        \A k \in DOMAIN tr_archetypes :
            /\ Len(tr_archetypes[k].dominantTraits) = 3
            /\ Reported(tr_archetypes[k]) \subseteq 1..5

\* the trades that decide the counts: of each (symbol, bot) pair the latest
\* trade in the window, in the order of the request
Deciding ==
    LET keep == {i \in DOMAIN cr_trades :
                    \E symbol \in Symbols :
                        LET w == Windowed(symbol) IN i \in w /\ LatestIn(w, i)}
        to_bit(i) == IF i \in keep THEN <<cr_trades[i]>> ELSE <<>>
        RECURSIVE from(_)
        from(i) == IF i > Len(cr_trades) THEN <<>> ELSE to_bit(i) \o from(i + 1)
    IN  from(1)

\* what an alert says about who was counted
Counted(a) ==
    [symbol |-> a.symbol, direction |-> a.direction, activeBots |-> a.activeBots,
     botIds |-> {a.botIds[i] : i \in DOMAIN a.botIds}]

\* C21: per symbol a bot is counted once, in the direction of its latest
\* trade on the symbol within the window; an alert's botIds is the
\* duplicate-free list of the bots counted in its direction, activeBots the
\* number of bots with a trade on the symbol in the window, and removing the
\* trades before the window and each bot's earlier in-window trades changes
\* none of these.
C21_LatestTradePerBotCounts ==
    Detected =>
        /\ \A i \in DOMAIN cr_result.alerts :
               LET a == cr_result.alerts[i]
               IN  /\ \A x, y \in DOMAIN a.botIds : a.botIds[x] = a.botIds[y] => x = y
                   /\ {a.botIds[x] : x \in DOMAIN a.botIds} = Takers(a.symbol, a.direction)
                   /\ a.activeBots = Cardinality(ActiveOn(a.symbol))
        /\ \E pruned \in {detect(Deciding, cr_threshold)} :
               {Counted(pruned.alerts[i]) : i \in DOMAIN pruned.alerts}
                   = {Counted(cr_result.alerts[i]) : i \in DOMAIN cr_result.alerts}

C21_Witness ==
    /\ Detected
    /\ Len(SelectSeq(cr_trades, LAMBDA t : t.botId = 1 /\ t.symbol = "AAA")) = 3
    /\ Len(Deciding) < Len(cr_trades) - 1
    /\ \E i \in AlertsFor("AAA", "buy") :
           /\ \E x \in DOMAIN cr_result.alerts[i].botIds : cr_result.alerts[i].botIds[x] = 1
           /\ cr_result.alerts[i].activeBots > Len(cr_result.alerts[i].botIds)

\* the rank of a severity band: 1 for critical to 4 for low
Rank(band) == CHOOSE r \in DOMAIN severity_order : severity_order[r] = band

\* the band of the share k / n of an alert, in tenths
Band(k, n) ==
    IF 10 * k >= 9 * n THEN "critical"
    ELSE IF 10 * k >= 8 * n THEN "high"
    ELSE IF 10 * k >= 7 * n THEN "medium"
    ELSE "low"

\* C27: each alert's severity is the band of its ratio k/activeBots (>= 0.9
\* critical, >= 0.8 high, >= 0.7 medium, otherwise low), and in the returned
\* list no alert of a more severe band follows an alert of a less severe one.
C27_SeverityBandsInOrder ==
    Detected =>
        /\ \A i \in DOMAIN cr_result.alerts :
               cr_result.alerts[i].severity
                   = Band(Len(cr_result.alerts[i].botIds), cr_result.alerts[i].activeBots)
        /\ \A i, j \in DOMAIN cr_result.alerts :
               i < j => Rank(cr_result.alerts[i].severity) <= Rank(cr_result.alerts[j].severity)

\* the critical alert of the second symbol is returned before a low alert of
\* the first
C27_Witness ==
    /\ Detected
    /\ Len(cr_result.alerts) = 2
    /\ cr_result.alerts[1].symbol = "BBB"
    /\ cr_result.alerts[1].severity = "critical"
    /\ cr_result.alerts[2].symbol = "AAA"
    /\ cr_result.alerts[2].severity = "low"
    /\ cr_trades[1].symbol = "AAA"

\* alerts of the bands high and medium are returned as well
C27_OtherBands ==
    /\ Detected
    /\ \E i \in DOMAIN cr_result.alerts : cr_result.alerts[i].severity = "high"

\* C30: for any thresholdRatio, those at or below 0.5 included, a result
\* never holds both a buy alert and a sell alert for one symbol and never an
\* alert for a symbol with fewer than 5 active bots.
C30_OneDirectionAndFiveBots ==
    Detected =>
        /\ \A symbol \in Symbols :
               AlertsFor(symbol, "buy") = {} \/ AlertsFor(symbol, "sell") = {}
        /\ \A i \in DOMAIN cr_result.alerts :
               /\ cr_result.alerts[i].activeBots >= 5
               /\ Cardinality(ActiveOn(cr_result.alerts[i].symbol)) >= 5
               /\ 2 * Len(cr_result.alerts[i].botIds) > cr_result.alerts[i].activeBots

\* thresholdRatio is at most 0.5 and both directions of the first symbol
\* reach it; one of them is alerted, and so is the second symbol with its 5
\* unanimous bots
C30_Witness ==
    /\ Detected
    /\ 2 * cr_threshold[1] <= cr_threshold[2]
    /\ \A direction \in {"buy", "sell"} :
           Cardinality(Takers("AAA", direction)) * cr_threshold[2]
               >= cr_threshold[1] * Cardinality(ActiveOn("AAA"))
    /\ Cardinality(Takers("AAA", "sell")) >= 3
    /\ AlertsFor("AAA", "buy") # {}
    /\ \E i \in AlertsFor("BBB", "sell") : cr_result.alerts[i].activeBots = 5

(***************************************************************************)
(* Shapley attribution: the normalised contributions                       *)
(***************************************************************************)
Sign(x) == IF x > 0 THEN 1 ELSE IF x < 0 THEN -1 ELSE 0

\* the comparison set of the i-th trade of the batch
Compared(i) == symbol_trades(sh_trades[i], sh_trades)

\* the raw factors of the i-th trade: regime, timing, direction, sizing
RawOf(i) == raw_factors(sh_trades[i], Compared(i), sh_picks[i])

\* the four reported contributions of an attribution record, in that order
Contributions(a) ==
    <<a.regimeContribution, a.timingContribution, a.directionContribution,
      a.sizingContribution>>

AbsoluteSum(c) == AbsInt(c[1]) + AbsInt(c[2]) + AbsInt(c[3]) + AbsInt(c[4])

OthersOnSymbol(i) ==
    LET at == {j \in DOMAIN sh_trades :
                  j # i /\ sh_trades[j].symbol = sh_trades[i].symbol}
        RECURSIVE from(_)
        from(j) == IF j > Len(sh_trades) THEN <<>>
                   ELSE (IF j \in at THEN <<sh_trades[j]>> ELSE <<>>) \o from(j + 1)
    IN  from(1)

\* C24: a trade's comparison set is every other trade of the batch on the
\* same symbol; it is empty exactly when the batch holds no other trade on
\* that symbol, and then each of the four contributions is pnlPercentage / 4
\* (as reported: rounded to 6 decimals); otherwise the record is computed
\* from those trades, returnIfRandomEntry being the mean of their returns.
C24_ComparisonSetIsOtherTradesOnSymbol ==
    \A i \in DOMAIN sh_results :
        /\ Compared(i) = OthersOnSymbol(i)
        /\ IF OthersOnSymbol(i) = <<>>
           THEN \A f \in 1..4 :
                    Contributions(sh_results[i])[f]
                        = round6(Frac(sh_trades[i].pnlPercentage, 4))
           ELSE sh_results[i].returnIfRandomEntry
                    = round6(Mean(Column(OthersOnSymbol(i), "pnlPercentage")))

\* the part of C24 that holds: trades that all carry their own id
C24_WithDistinctIds ==
    (\A i, j \in DOMAIN sh_trades : i # j => sh_trades[i].id # sh_trades[j].id)
        => C24_ComparisonSetIsOtherTradesOnSymbol

(***************************************************************************)
(* Shapley attribution: reproducibility                                    *)
(***************************************************************************)
\* C22: two shapley:batch requests carrying the same trades and the same
\* permutation count return identical attribution records, within one
\* engine process and across separate runs of the engine.
C22_SameRequestSameRecords ==
    /\ rr_first # <<>> /\ rr_again # <<>> => rr_again = rr_first
    /\ rr_first # <<>> /\ rr_other # <<>> => rr_other = rr_first

\* the part of C22 that holds: within one engine process
C22_SameProcessSameRecords ==
    rr_first # <<>> /\ rr_again # <<>> => rr_again = rr_first

\* the part of C22 that holds across runs: number ids
C22_NumberIdsSameRecords ==
    /\ rr_first # <<>>
    /\ rr_other # <<>>
    /\ \A i \in DOMAIN rr_trades : rr_trades[i].id[1] = "int"
    => rr_other = rr_first


(***************************************************************************)
(* Archetype Clustering: the k-means fallback                              *)
(***************************************************************************)
\* _kmeans_fallback has returned its labels for at least 2 x minClusterSize bots
FallbackReturned ==
    /\ cl_pc \in {"labelled", "returned"}
    /\ ~cl_hdbscan
    /\ n_samples >= cl_min_size * 2

\* the cluster counts the loop has fitted and scored so far
TriedK == KMin..(cl_k - 1)

\* C25: when the density-based method is unavailable and botCount >= 2 x
\* minClusterSize, the k-means fallback has tried every cluster count k from
\* 3 to 7 by the time it returns its partition (the best-scoring one, the
\* smallest k winning a tie).
C25_FallbackSweepsThreeToSeven == FallbackReturned => TriedK = KMin..KMax

\* what the loop does try: the counts from 3 up to min(7, botCount div
\* minClusterSize), none when that cap is below 3; and with no candidate
\* kept the partition returned is the single cluster of all bots
C25_SweepsUpToCap ==
    FallbackReturned =>
        /\ TriedK = {k \in KMin..KMax : k * cl_min_size <= n_samples}
        /\ TriedK = {} => cl_labels = [i \in 1..n_samples |-> 0]

\* a candidate replaces the partition kept only with a strictly higher
\* score, so among equal scores the smallest k stays
C25_KeepsFirstBest ==
    [][(cl_pc = "kmeans" /\ cl_k' = cl_k + 1) =>
           /\ cl_best_score' >= cl_best_score
           /\ cl_labels' # cl_labels => cl_best_score' > cl_best_score]_vars


(***************************************************************************)
(* Archetype Clustering: too few bots to cluster                           *)
(***************************************************************************)
\* cluster has returned for at least one and fewer than 2 x minClusterSize bots
TooFewClustered ==
    /\ Clustered
    /\ 1 <= n_samples
    /\ n_samples < cl_min_size * 2

\* C26: when 1 <= botCount < 2 x minClusterSize, cluster runs no clustering
\* method and returns, as a normal result, exactly one archetype with id 0
\* whose memberBotIds are all embedded bots, an empty noise list, an assignment
\* with archetypeId 0 for every bot, clusterCount 1 and silhouetteScore 0.
C26_TooFewBotsOneArchetype ==
    TooFewClustered =>
        /\ cl_k = 0 /\ cl_labels = <<>>
        /\ Len(cl_result.archetypes) = 1
        /\ cl_result.archetypes[1].id = 0
        /\ cl_result.archetypes[1].memberBotIds = bot_ids
        /\ Range(cl_result.archetypes[1].memberBotIds) = cl_embeddings
        /\ cl_result.noise = <<>>
        /\ DOMAIN cl_result.assignments = cl_embeddings
        /\ \A bot \in cl_embeddings : cl_result.assignments[bot].archetypeId = 0
        /\ cl_result.clusterCount = 1
        /\ cl_result.silhouetteScore = 0
        /\ "error" \notin DOMAIN cl_result

C26_Witness ==
    /\ TooFewClustered
    /\ cl_hdbscan
    /\ n_samples = 2 * cl_min_size - 1
    /\ n_samples > 1


(***************************************************************************)
(* Niche discovery: the order of the cells                                 *)
(***************************************************************************)
\* C28: in analyze's output the cells are ordered by opportunityScore,
\* non-increasing from first to last: no cell is followed by a cell of a
\* higher score.
C28_CellsByScoreDescending ==
    Analyzed =>
        \A i, j \in DOMAIN ni_result.cells :
            i < j => ni_result.cells[i].opportunityScore >= ni_result.cells[j].opportunityScore

\* a result whose cells were moved by the sort and that holds the highest
\* and the lowest score
C28_Witness ==
    /\ Analyzed
    /\ ni_result.cells # all_cells(ni_archetypes, ni_perf)
    /\ \E i, j \in DOMAIN ni_result.cells :
           /\ ni_result.cells[i].opportunityScore = 9
           /\ ni_result.cells[j].opportunityScore = 1
    /\ Cardinality({ni_result.cells[i].opportunityScore : i \in DOMAIN ni_result.cells}) >= 3


(***************************************************************************)
(* Per-Bot Predictor: isolation of the model slots                         *)
(***************************************************************************)
CacheRequests == {"competitive:train", "competitive:predict", "competitive:predict_all"}

\* what the cache holds for bot b: whether it has a model, which one, and
\* its training count
SlotOf(m, c, b) ==
    <<b \in DOMAIN m,
      IF b \in DOMAIN m THEN m[b] ELSE NoModel,
      IF b \in DOMAIN c THEN c[b] ELSE 0>>

\* the request is a well-formed competitive:train for bot b
TrainsBot(r, b) ==
    /\ r.type = "competitive:train"
    /\ r.payload.kind = "train"
    /\ r.payload.botId = b

\* handling a train, predict or predict_all request leaves the slot of every
\* bot the request does not train as it was
OtherSlotsKept ==
    Handles /\ req'.type \in CacheRequests
        => \A b \in Bots :
               TrainsBot(req', b)
               \/ SlotOf(models', train_counts', b) = SlotOf(models, train_counts, b)

\* predict for b finds no model iff no train for b has succeeded, and a
\* prediction it returns is answered by the estimator of the latest one
PredictFindsLatestFit ==
    \A b \in Bots :
        PredictFor(b) =>
            IF last_fit[b] = NoModel
            THEN resp.success /\ NoModelResult(resp.payload)
            ELSE IF resp.success THEN AnsweredBy(resp.payload, last_fit[b])
            ELSE req.payload.dim # last_fit[b].dim

\* C29: a competitive:train, predict or predict_all request for bot A never
\* creates, replaces or removes the model slot of another bot B; whether
\* predict for B finds a model, and which one, is determined by the most
\* recent successful train for B alone; predict and predict_all never modify
\* the cache.
C29_SlotsIsolatedPerBot ==
    /\ [](PredictFindsLatestFit
          /\ \A b \in Bots : SlotOf(models, train_counts, b)[2] = last_fit[b])
    /\ [][OtherSlotsKept]_vars
    /\ [][Handles /\ req'.type \in {"competitive:predict", "competitive:predict_all"}
             => models' = models /\ train_counts' = train_counts]_vars

\* bot b2 was trained, then bot b1 was trained on other data, and predict for
\* b2 is answered by b2's own estimator
C29_Witness ==
    /\ PredictFor("b2")
    /\ resp.success
    /\ DOMAIN models = Bots
    /\ models["b1"] # models["b2"]
    /\ AnsweredBy(resp.payload, last_fit["b2"])

====
